---------------------------- MODULE Spec2Model ----------------------------
(***************************************************************************)
(* A model of the conversational query pipeline of terminal-tutor:        *)
(* the bounded persisted session (GeminiClient::Impl), the synchronous    *)
(* and streaming remote calls, the intent classifier, the danger check    *)
(* and the control flow of main() around command execution.               *)
(*                                                                         *)
(* Text is modelled as a sequence of one-character strings.  JSON text    *)
(* is modelled by tokens: "{" and "}" are the brace characters, and the   *)
(* members between a pair of braces are one token whose meaning (the      *)
(* object nlohmann::json::parse would build) is given by JsonMembers.     *)
(***************************************************************************)
EXTENDS Integers, Sequences, FiniteSets, TLC

VARIABLES
    impl,        \* GeminiClient::Impl: session_path and history
    fs,          \* the session file and whether it / its directory is writable
    mode,        \* which branch of main() this process runs
    pc,          \* position of main() in that branch
    resp,        \* the result of the last client call
    cmd,         \* the command main() holds after trimming
    answer,      \* the line read by askDangerousConfirmation ("" = not asked)
    executed,    \* the calls of executeAndCapture so far
    net,         \* the remote endpoint as seen by the client: posts and last outcome
    out,         \* what the process showed: error printed, exit code
    allTurns,    \* every turn loaded or appended so far, in order
    appends,     \* number of appends (push_back followed by saveSession) so far
    lines,       \* console lines read so far
    stream,      \* the bytes the transport will deliver for the streaming call
    pos,         \* how many of them have been delivered
    ctx,         \* CurlStreamContext: buffer and accumulated
    sink,        \* the chunks handed to the StreamCallback, in order
    reply,       \* a full reply text under classification
    classified,  \* the classifier results for it
    verdict,     \* the answers of the two danger checks for cmd
    shared,      \* a session file shared by two processes, and the two processes
    pipe,        \* the child process behind popen(): what it prints, its wait status
    parsed       \* the results of CommandParser for cmd

vars == << impl, fs, mode, pc, resp, cmd, answer, executed, net, out,
           allTurns, appends, lines, stream, pos, ctx, sink, reply, classified,
           verdict, shared, pipe, parsed >>

-----------------------------------------------------------------------------
(* Program constants *)

MAX_HISTORY_TURNS == 10

OUTPUT_LIMIT == 2000

(* Bounds of the model *)

MaxLines == 2

MaxReplyLen == 4

MaxEvents == 2

\* client calls in the stand-alone client model
MaxCalls == 2

-----------------------------------------------------------------------------
(* std::string operations *)

Min(a, b) == IF a < b THEN a ELSE b

\* true when needle occurs in hay starting at index i (1-based)
OccursAt(hay, needle, i) ==
    /\ i >= 1
    /\ i + Len(needle) - 1 <= Len(hay)
    /\ \A k \in 1..Len(needle) : hay[i + k - 1] = needle[k]

\* std::string::find(needle): the first index of an occurrence, 0 for npos
Find(hay, needle) ==
    LET hits == { i \in 1..(Len(hay) + 1) : OccursAt(hay, needle, i) }
    IN  IF hits = {} THEN 0 ELSE CHOOSE i \in hits : \A j \in hits : i <= j

\* std::string::rfind(needle): the last index of an occurrence, 0 for npos
RFind(hay, needle) ==
    LET hits == { i \in 1..(Len(hay) + 1) : OccursAt(hay, needle, i) }
    IN  IF hits = {} THEN 0 ELSE CHOOSE i \in hits : \A j \in hits : i >= j

Contains(hay, needle) == Find(hay, needle) # 0

UpperCase == <<"A","B","C","D","E","F","G","H","I","J","K","L","M",
               "N","O","P","Q","R","S","T","U","V","W","X","Y","Z">>

LowerCase == <<"a","b","c","d","e","f","g","h","i","j","k","l","m",
               "n","o","p","q","r","s","t","u","v","w","x","y","z">>

\* ::tolower on one character
tolower(c) ==
    IF \E i \in 1..Len(UpperCase) : UpperCase[i] = c
    THEN LowerCase[CHOOSE i \in 1..Len(UpperCase) : UpperCase[i] = c]
    ELSE c

\* std::transform(..., ::tolower)
ToLower(s) == [i \in 1..Len(s) |-> tolower(s[i])]

WhiteSpace == {" ", "\n", "\r", "\t"}

\* cmd.erase(0, find_first_not_of(ws)); cmd.erase(find_last_not_of(ws) + 1)
TrimWs(s) ==
    LET keep == { i \in 1..Len(s) : s[i] \notin WhiteSpace }
    IN  IF keep = {} THEN <<>>
        ELSE SubSeq(s, CHOOSE i \in keep : \A j \in keep : i <= j,
                       CHOOSE i \in keep : \A j \in keep : i >= j)

RECURSIVE Concat(_)
Concat(ss) == IF ss = <<>> THEN <<>> ELSE Head(ss) \o Concat(Tail(ss))

-----------------------------------------------------------------------------
(* The danger check of main.cpp *)

DANGEROUS_COMMANDS ==
    << <<"r", "m">>,
       <<"r", "m", "d", "i", "r">>,
       <<"u", "n", "l", "i", "n", "k">>,
       <<"s", "h", "r", "e", "d">>,
       <<"s", "h", "u", "t", "d", "o", "w", "n">>,
       <<"r", "e", "b", "o", "o", "t">>,
       <<"p", "o", "w", "e", "r", "o", "f", "f">>,
       <<"h", "a", "l", "t">>,
       <<"i", "n", "i", "t">>,
       <<"m", "k", "f", "s">>,
       <<"f", "d", "i", "s", "k">>,
       <<"p", "a", "r", "t", "e", "d">>,
       <<"d", "d">>,
       <<"f", "o", "r", "m", "a", "t">>,
       <<"m", "k", "s", "w", "a", "p">>,
       <<"a", "p", "t", "-", "g", "e", "t", " ", "r", "e", "m", "o", "v", "e">>,
       <<"a", "p", "t", " ", "r", "e", "m", "o", "v", "e">>,
       <<"a", "p", "t", "-", "g", "e", "t", " ", "p", "u", "r", "g", "e">>,
       <<"a", "p", "t", " ", "p", "u", "r", "g", "e">>,
       <<"y", "u", "m", " ", "r", "e", "m", "o", "v", "e">>,
       <<"d", "n", "f", " ", "r", "e", "m", "o", "v", "e">>,
       <<"p", "a", "c", "m", "a", "n", " ", "-", "R">>,
       <<"c", "h", "m", "o", "d", " ", "7", "7", "7">>,
       <<"c", "h", "m", "o", "d", " ", "-", "R">>,
       <<"c", "h", "o", "w", "n", " ", "-", "R">>,
       <<"c", "h", "g", "r", "p", " ", "-", "R">>,
       <<"i", "p", "t", "a", "b", "l", "e", "s", " ", "-", "F">>,
       <<"u", "f", "w", " ", "d", "i", "s", "a", "b", "l", "e">>,
       <<"k", "i", "l", "l", " ", "-", "9">>,
       <<"k", "i", "l", "l", "a", "l", "l">>,
       <<"p", "k", "i", "l", "l">>,
       <<":", "(", ")", "{">>,
       <<"f", "o", "r", "k", " ", "b", "o", "m", "b">>,
       <<"u", "s", "e", "r", "d", "e", "l">>,
       <<"d", "e", "l", "u", "s", "e", "r">>,
       <<"p", "a", "s", "s", "w", "d">>,
       <<"s", "u", "d", "o">> >>

DANGEROUS_PATTERNS ==
    << <<">", " ", "/", "d", "e", "v", "/">>,
       <<">", "/", "d", "e", "v", "/">>,
       <<">", " ", "/", "e", "t", "c", "/">>,
       <<">", "/", "e", "t", "c", "/">>,
       <<">", " ", "/", "b", "o", "o", "t", "/">>,
       <<">", "/", "b", "o", "o", "t", "/">>,
       <<"|", " ", "r", "m">>,
       <<"|", "r", "m">>,
       <<"|", " ", "d", "d">>,
       <<"|", "d", "d">>,
       <<"r", "f", " ", "/">>,
       <<"r", "f", " ", "~", "/">>,
       <<"r", "f", " ", "~">>,
       <<"r", "f", " ", ".">>,
       <<"m", "v", " ", "/", "*", " ">>,
       <<"m", "v", " ", "/", " ">>,
       <<">", " ", "/">>,
       <<"|", " ", "t", "e", "e", " ", "/">>,
       <<"|", "t", "e", "e", " ", "/">>,
       <<"c", "h", "m", "o", "d", " ", "0", "0", "0">>,
       <<":", "(", ")", "{", " ", ":">>,
       <<"/", "d", "e", "v", "/", "n", "u", "l", "l", " ", ">">>,
       <<"/", "d", "e", "v", "/", "z", "e", "r", "o">>,
       <<"/", "d", "e", "v", "/", "r", "a", "n", "d", "o", "m">> >>

isDangerousCommand(c) ==
    LET lower_cmd == ToLower(c)
    IN  \/ \E i \in 1..Len(DANGEROUS_COMMANDS) :
              LET dangerous == DANGEROUS_COMMANDS[i]
              IN  \/ Find(lower_cmd, dangerous) = 1
                  \/ Contains(lower_cmd, <<"|", " ">> \o dangerous)
                  \/ Contains(lower_cmd, <<"|">> \o dangerous)
                  \/ Contains(lower_cmd, <<"s", "u", "d", "o", " ">> \o dangerous)
        \/ \E i \in 1..Len(DANGEROUS_PATTERNS) :
              Contains(lower_cmd, DANGEROUS_PATTERNS[i])

\* faulty variant: a confirmation that also takes the short and the
\* capitalised answer
askDangerousConfirmation_Lenient(response) == response \in {"yes", "y", "Yes"}

\* askDangerousConfirmation: the line read from stdin must be exactly "yes"
askDangerousConfirmation(response) == response = "yes"

-----------------------------------------------------------------------------
(* Session store: GeminiClient::Impl *)

Turn(role, text) == [role |-> role, text |-> text]

\* the session file: absent, not parseable, parseable but no array, or an array
FileAbsent == [kind |-> "absent", turns |-> <<>>]

FileOf(h) == [kind |-> "array", turns |-> h]

Named(i) == i.session_path # ""

\* file >> history (line 75): an array, another JSON value, or a parse_error
\* for a file that is empty or no JSON
ParseSessionFile(f) ==
    CASE f.kind = "array"    -> [threw |-> FALSE, is_array |-> TRUE, turns |-> f.turns]
      [] f.kind = "nonarray" -> [threw |-> FALSE, is_array |-> FALSE, turns |-> <<>>]
      [] OTHER               -> [threw |-> TRUE, is_array |-> FALSE, turns |-> <<>>]

\* faulty variant: the parse is not guarded, its exception leaves loadSession
ReadSession_NoCatch(f) ==
    IF f.kind = "absent" THEN [history |-> <<>>, threw |-> FALSE]
    ELSE LET p == ParseSessionFile(f)
         IN  [history |-> IF p.is_array THEN p.turns ELSE <<>>, threw |-> p.threw]

\* loadSession() from the ifstream on (lines 72-82): a file that is not good()
\* is skipped, a value that is no array is replaced by an empty one, and
\* catch (...) turns every exception of the parse into an empty history
ReadSession(f) ==
    IF f.kind = "absent" THEN [history |-> <<>>, threw |-> FALSE]
    ELSE LET p == ParseSessionFile(f)
         IN  IF p.threw THEN [history |-> <<>>, threw |-> FALSE]
             ELSE IF ~p.is_array THEN [history |-> <<>>, threw |-> FALSE]
             ELSE [history |-> p.turns, threw |-> FALSE]

\* loadSession(): anything but a readable JSON array yields an empty history
loadSession(session_path, f) ==
    IF session_path = "" THEN <<>>
    ELSE ReadSession(f).history

\* an exception that leaves loadSession() leaves the constructor and main()
LoadThrows(session_path, f) == session_path # "" /\ ReadSession(f).threw

\* faulty variant: a trim that keeps the oldest turns and cuts the newest
TrimHistory_KeepOldest(h) ==
    IF Len(h) > MAX_HISTORY_TURNS * 2
    THEN SubSeq(h, 1, MAX_HISTORY_TURNS * 2)
    ELSE h

\* the trimming loop of saveSession(): two erase(begin()) per round
RECURSIVE TrimHistory(_)
TrimHistory(h) ==
    IF Len(h) > MAX_HISTORY_TURNS * 2
    THEN TrimHistory(SubSeq(h, 3, Len(h)))
    ELSE h

\* saveSession(): trim, write through std::ofstream (a failed open is silent),
\* then std::filesystem::permissions, which throws when the file does not exist
saveSession(i, f) ==
    IF ~Named(i) THEN [impl |-> i, fs |-> f, threw |-> FALSE, wrote |-> FALSE]
    ELSE
      LET h      == TrimHistory(i.history)
          openOK == IF f.file.kind = "absent" THEN f.dirOK ELSE ~f.fileRO
          file2  == IF openOK THEN FileOf(h) ELSE f.file
          threw  == file2.kind = "absent"
      IN  [impl  |-> [i EXCEPT !.history = h],
           fs    |-> [f EXCEPT !.file = file2,
                               !.fileRO = IF threw THEN f.fileRO ELSE FALSE],
           threw |-> threw,
           wrote |-> openOK]

\* faulty variant: the test for an ephemeral session is missing
addToHistory_NoGuard(i, f, role, text) ==
    saveSession([i EXCEPT !.history = Append(@, Turn(role, text))], f)

\* addToHistory(role, text)
addToHistory(i, f, role, text) ==
    IF ~Named(i) THEN [impl |-> i, fs |-> f, threw |-> FALSE, wrote |-> FALSE]
    ELSE saveSession([i EXCEPT !.history = Append(@, Turn(role, text))], f)

-----------------------------------------------------------------------------
(* Remote client: GeminiClient::Impl::sendRequest *)

\* What client->Post returns: no response, a non-200 status, or status 200 with
\* a body that is no JSON, lacks candidates[0].content.parts[0], has a text
\* that is no string, or is well formed with the reply text.
ResKinds == {"neterr", "http_err", "badjson", "nostruct", "nontext", "ok"}

FailKinds == ResKinds \ {"ok"}

Res(kind, text) == [kind |-> kind, text |-> text]

NoResp == [success |-> FALSE, content |-> <<>>, error |-> <<>>]

\* faulty variant: the new user turn is put before the stored turns
Contents_NewestFirst(i, prompt, use_history) ==
    << Turn("user", prompt) >>
        \o (IF use_history /\ Named(i) /\ i.history # <<>> THEN i.history ELSE <<>>)

\* the contents array of a generate request
Contents(i, prompt, use_history) ==
    (IF use_history /\ Named(i) /\ i.history # <<>> THEN i.history ELSE <<>>)
        \o << Turn("user", prompt) >>

\* faulty variant: the status test is missing, so a non-200 reply is handed
\* back as a success
ErrorResponse_NoStatusTest(res) ==
    IF res.kind = "http_err"
    THEN [success |-> TRUE, content |-> res.text, error |-> <<>>]
    ELSE [success |-> FALSE, content |-> <<>>, error |-> <<"Network error: ">>]

\* the response built for a reply that is not a well-formed status-200 body
\* (lines 147-163 and 189-196)
ErrorResponse(res) ==
    [success |-> FALSE, content |-> <<>>,
     error |-> CASE res.kind = "neterr"   -> <<"Network error: ">>
                 [] res.kind = "http_err" -> <<"API error: HTTP ">>
                 [] res.kind = "badjson"  -> <<"JSON parse error: ">>
                 [] res.kind = "nostruct" -> <<"Invalid response structure">>
                 [] res.kind = "nontext"  -> <<"JSON parse error: ">>]

\* faulty variant: the model's reply is pushed before the user's turn
PushExchange_ModelFirst(h, prompt, content) ==
    h \o << Turn("model", content), Turn("user", prompt) >>

\* the two push_back calls of a successful exchange (lines 179-186)
PushExchange(h, prompt, content) ==
    h \o << Turn("user", prompt), Turn("model", content) >>

\* sendRequest(prompt, use_history): one Post, then the reply is decoded; on
\* success with an active session both turns are pushed and saveSession() runs
\* inside the try block, so an exception it throws is caught as a "JSON parse
\* error" after the turns were pushed and response.content was set.
sendRequest(i, f, prompt, use_history, res) ==
    LET Result(r, i2, f2) ==
            [resp |-> r, sent |-> r, impl |-> i2, fs |-> f2, posts |-> 1,
             contents |-> Contents(i, prompt, use_history)]
        Ok == [success |-> TRUE, content |-> res.text, error |-> <<>>]
    IN  IF res.kind # "ok" THEN Result(ErrorResponse(res), i, f)
        ELSE IF use_history /\ Named(i)
        THEN LET s == saveSession(
                        [i EXCEPT !.history = PushExchange(@, prompt, res.text)], f)
             IN  IF s.threw
                 THEN Result([success |-> FALSE, content |-> res.text,
                              error |-> <<"JSON parse error: ">>], s.impl, s.fs)
                 ELSE Result(Ok, s.impl, s.fs)
        ELSE Result(Ok, i, f)

-----------------------------------------------------------------------------
(* JSON replies *)

Str(v) == [k |-> "string", v |-> v]

NoMember == [k |-> "absent", v |-> <<>>]

NotStr == [k |-> "other", v |-> <<>>]

Obj(t, c, e, r) == [type |-> t, command |-> c, explanation |-> e, response |-> r]

EmptyObj == Obj(NoMember, NoMember, NoMember, NoMember)

\* the commands a reply may carry
CmdLs == <<"l", "s", " ", "-", "l", "a", " ", "/", "h", "o", "m", "e">>

CmdSudoRm == <<"s", "u", "d", "o", " ", "r", "m", " ", "-", "r", "f", " ",
               "/", "t", "m", "p", "/", "x">>

CmdRmPadded == <<" ", "R", "m", " ", "x", "\n">>

TextE == <<"lists files">>

TextR == <<"a process is a running program">>

\* The object denoted by the members between one pair of braces.
JsonMembers(tok) ==
    CASE tok = "x_ls"    -> Obj(Str(<<"execute">>), Str(CmdLs), NoMember, NoMember)
      [] tok = "x_sudo"  -> Obj(Str(<<"execute">>), Str(CmdSudoRm), Str(TextE), NoMember)
      [] tok = "x_rm"    -> Obj(Str(<<"execute">>), Str(CmdRmPadded), NoMember, NoMember)
      [] tok = "x_nocmd" -> Obj(Str(<<"execute">>), NoMember, Str(TextE), NoMember)
      [] tok = "x_bad_e" -> Obj(Str(<<"execute">>), Str(CmdLs), NotStr, NoMember)
      [] tok = "p_ok"    -> Obj(Str(<<"explain">>), NoMember, NoMember, Str(TextR))
      [] tok = "p_noresp"-> Obj(Str(<<"explain">>), NoMember, NoMember, NoMember)
      [] tok = "u_other" -> Obj(Str(<<"other">>), NoMember, NoMember, Str(TextR))
      [] tok = "t_num"   -> Obj(NotStr, Str(CmdLs), NoMember, NoMember)
      [] tok = "c_ls"    -> Obj(NoMember, Str(CmdLs), Str(TextE), NoMember)
      [] tok = "c_sudo"  -> Obj(NoMember, Str(CmdSudoRm), NoMember, NoMember)
      [] tok = "c_bad_e" -> Obj(NoMember, Str(CmdSudoRm), NotStr, NoMember)

MemberTokens == {"x_ls", "x_sudo", "x_rm", "x_nocmd", "x_bad_e", "p_ok", "p_noresp",
                 "u_other", "t_num", "c_ls", "c_sudo", "c_bad_e"}

\* nlohmann::json::parse: "7" is a JSON value that is no object; a pair of
\* braces around nothing or around one members token is an object; anything
\* else throws parse_error.
ParseJson(s) ==
    IF s = <<"7">> THEN [ok |-> TRUE, isObject |-> FALSE, obj |-> EmptyObj]
    ELSE IF s = <<"{", "}">> THEN [ok |-> TRUE, isObject |-> TRUE, obj |-> EmptyObj]
    ELSE IF Len(s) = 3 /\ s[1] = "{" /\ s[3] = "}" /\ s[2] \in MemberTokens
         THEN [ok |-> TRUE, isObject |-> TRUE, obj |-> JsonMembers(s[2])]
    ELSE [ok |-> FALSE, isObject |-> FALSE, obj |-> EmptyObj]

-----------------------------------------------------------------------------
(* Intent classifier: GeminiClient::smartQuery and smartQueryStreaming *)

Smart(t, c, e, err, ok) ==
    [type |-> t, command |-> c, explanation |-> e, error |-> err, success |-> ok]

\* the classification shared by both: what the try block does with the parsed
\* span; raw is the text the catch block falls back to, other is the result
\* when the type is a string that is neither "execute" nor "explain"
ClassifySpan(span, raw, other) ==
    LET p == ParseJson(span)
        o == p.obj
        Fallback(c) == Smart("EXPLAIN", c, raw, <<>>, TRUE)
    IN  IF ~p.ok \/ ~p.isObject \/ o.type.k # "string" THEN Fallback(<<>>)
        ELSE IF o.type.v = <<"execute">>
             THEN IF o.command.k # "string" THEN Fallback(<<>>)
                  ELSE IF o.explanation.k = "absent"
                       THEN Smart("EXECUTE", o.command.v, <<>>, <<>>, TRUE)
                  ELSE IF o.explanation.k = "string"
                       THEN Smart("EXECUTE", o.command.v, o.explanation.v, <<>>, TRUE)
                  ELSE Fallback(o.command.v)
        ELSE IF o.type.v = <<"explain">>
             THEN IF o.response.k = "string"
                  THEN Smart("EXPLAIN", <<>>, o.response.v, <<>>, TRUE)
                  ELSE Fallback(<<>>)
        ELSE other

\* faulty variant: the span ends at the first '}' instead of the last
BraceSpan_FirstClose(content) ==
    LET start == Find(content, <<"{">>)
        end   == Find(content, <<"}">>)
    IN  IF start # 0 /\ end # 0 /\ end > start
        THEN SubSeq(content, start, end) ELSE content

\* the text handed to json::parse by smartQuery (lines 311-315): the span from
\* the first '{' to the last '}', or the whole content when there is none
BraceSpan(content) ==
    LET start == Find(content, <<"{">>)
        end   == RFind(content, <<"}">>)
    IN  IF start # 0 /\ end # 0 /\ end > start
        THEN SubSeq(content, start, end) ELSE content

\* smartQuery after a successful sendRequest (lines 305-343)
SmartParse(content) ==
    LET span == BraceSpan(content)
        type == ParseJson(span).obj.type.v
    IN  ClassifySpan(span, content,
            Smart("ERROR", <<>>, <<>>, <<"Unknown response type: ">> \o type, FALSE))

\* smartQueryStreaming after curl_easy_perform returned CURLE_OK (lines
\* 468-497); t0 is the value of the never-initialised result.type
StreamParse(accumulated, t0) ==
    LET start == Find(accumulated, <<"{">>)
        end   == RFind(accumulated, <<"}">>)
        untouched == Smart(t0, <<>>, <<>>, <<>>, FALSE)
    IN  IF start # 0 /\ end # 0 /\ end > start
        THEN ClassifySpan(SubSeq(accumulated, start, end), accumulated, untouched)
        ELSE untouched

\* the values an indeterminate SmartResponse::Type may hold
IndeterminateTypes == {"EXECUTE", "EXPLAIN", "ERROR", "OUT_OF_RANGE"}

\* the prompt texts built from the caller's text
Prompt(kind, text) == <<kind>> \o text

\* smartQuery(query)
smartQuery(i, f, query, res) ==
    LET r == sendRequest(i, f, Prompt("smart", query), TRUE, res)
    IN  [r EXCEPT !.resp =
            IF ~r.resp.success
            THEN Smart("ERROR", <<>>, <<>>, r.resp.error, FALSE)
            ELSE SmartParse(r.resp.content)]

\* getCommandForTask(task); s0 is the value of the never-initialised
\* result.success, read when the reply holds no '{' or no '}'
getCommandForTask(i, f, task, res, s0) ==
    LET r == sendRequest(i, f, Prompt("task", task), TRUE, res)
        content == r.resp.content
        start == Find(content, <<"{">>)
        end   == RFind(content, <<"}">>)
        \* substr(start, end - start + 1) with size_t arithmetic
        span  == IF end >= start THEN SubSeq(content, start, end)
                 ELSE IF end = start - 1 THEN <<>>
                 ELSE SubSeq(content, start, Len(content))
        p == ParseJson(span)
        Raw == [success |-> TRUE, content |-> content, error |-> <<>>]
    IN  [r EXCEPT !.resp =
            IF ~r.resp.success THEN r.resp
            ELSE IF start = 0 \/ end = 0
                 THEN [success |-> s0, content |-> <<>>, error |-> <<>>]
            ELSE IF ~p.ok \/ ~p.isObject \/ p.obj.command.k # "string" THEN Raw
            ELSE IF p.obj.explanation.k = "absent"
                 THEN [success |-> TRUE, content |-> p.obj.command.v, error |-> <<>>]
            ELSE IF p.obj.explanation.k = "string"
                 THEN [success |-> TRUE, content |-> p.obj.command.v,
                       error |-> p.obj.explanation.v]
            ELSE Raw]

-----------------------------------------------------------------------------
(* Streaming decode: curlWriteCallback *)

Marker == <<"d", "a", "t", "a", ":", " ">>

\* The JSON fragments an event line may carry, each one token: three well
\* formed ones with the text below, one that is JSON without
\* candidates[0].content.parts[0], one whose text is no string, one that is
\* no JSON.  Any other payload is no JSON either.
EventText(tok) ==
    CASE tok = "Ea" -> <<"{", "x_ls">>
      [] tok = "Eb" -> <<"}">>
      [] tok = "Ec" -> <<"p">>

TextEvents == {"Ea", "Eb", "Ec"}

\* json::parse(json_str) followed by the candidates/parts test and get<string>:
\* ok is true exactly when a chunk is extracted; every other case is skipped
\* (the structure test fails, or an exception is swallowed by catch (...))
DecodeEvent(json_str) ==
    IF Len(json_str) = 1 /\ json_str[1] \in TextEvents
    THEN [ok |-> TRUE, chunk |-> EventText(json_str[1])]
    ELSE [ok |-> FALSE, chunk |-> <<>>]

NewCtx(callback) == [buffer |-> <<>>, accumulated |-> <<>>, callback |-> callback]

\* faulty variant: the trailing '\r' of a line is not stripped
ProcessLine_KeepCR(c, snk, line0) ==
    LET ev == DecodeEvent(SubSeq(line0, 7, Len(line0)))
    IN  IF OccursAt(line0, Marker, 1) /\ ev.ok
        THEN [ctx  |-> [c EXCEPT !.accumulated = @ \o ev.chunk],
              sink |-> IF c.callback THEN Append(snk, ev.chunk) ELSE snk]
        ELSE [ctx |-> c, sink |-> snk]

\* one line taken out of the buffer: strip '\r', test the marker, decode
ProcessLine(c, snk, line0) ==
    LET line == IF line0 # <<>> /\ line0[Len(line0)] = "\r"
                THEN SubSeq(line0, 1, Len(line0) - 1) ELSE line0
        ev   == DecodeEvent(SubSeq(line, 7, Len(line)))
    IN  IF OccursAt(line, Marker, 1) /\ ev.ok
        THEN [ctx  |-> [c EXCEPT !.accumulated = @ \o ev.chunk],
              sink |-> IF c.callback THEN Append(snk, ev.chunk) ELSE snk]
        ELSE [ctx |-> c, sink |-> snk]

\* the while loop over complete lines
RECURSIVE DrainLines(_, _)
DrainLines(c, snk) ==
    LET p == Find(c.buffer, <<"\n">>)
    IN  IF p = 0 THEN [ctx |-> c, sink |-> snk]
        ELSE LET r == ProcessLine([c EXCEPT !.buffer = SubSeq(@, p + 1, Len(@))],
                                  snk, SubSeq(c.buffer, 1, p - 1))
             IN  DrainLines(r.ctx, r.sink)

\* faulty variant: a write replaces the buffer, losing the partial line
\* carried over from the write before
curlWriteCallback_NoCarry(c, snk, bytes) ==
    DrainLines([c EXCEPT !.buffer = bytes], snk)

\* curlWriteCallback(ptr, size, nmemb, userdata)
curlWriteCallback(c, snk, bytes) ==
    DrainLines([c EXCEPT !.buffer = @ \o bytes], snk)

-----------------------------------------------------------------------------
(* Command executor: executeAndCapture *)

\* the size of the buffer fgets fills
FGETS_SIZE == 256

\* "\n... [output truncated]"
TruncationMarker ==
    <<"\n", ".", ".", ".", " ", "[", "o", "u", "t", "p", "u", "t", " ", "t", "r", "u", "n", "c", "a", "t", "e", "d", "]">>

\* "Failed to execute command"
SpawnFailure ==
    <<"F", "a", "i", "l", "e", "d", " ", "t", "o", " ", "e", "x", "e", "c", "u", "t", "e", " ", "c", "o", "m", "m", "a", "n", "d">>

\* WIFEXITED and WEXITSTATUS of a wait status, and the status of a child that
\* exited with a code
WIFEXITED(status) == status % 128 = 0

WEXITSTATUS(status) == (status \div 256) % 256

W_EXITCODE(code) == code * 256

\* fgets(buffer.data(), buffer.size(), pipe) on the bytes still in the pipe:
\* at most size - 1 bytes, ending with the first newline if there is one
fgets(rest) ==
    LET n  == Min(Len(rest), FGETS_SIZE - 1)
        nl == { k \in 1..n : rest[k] = "\n" }
    IN  SubSeq(rest, 1, IF nl = {} THEN n ELSE CHOOSE k \in nl : \A j \in nl : k <= j)

\* std::string chunk = buffer.data(): the bytes before the first NUL
CString(buf) ==
    LET z == { k \in 1..Len(buf) : buf[k] = "NUL" }
    IN  IF z = {} THEN buf ELSE SubSeq(buf, 1, (CHOOSE k \in z : \A j \in z : k <= j) - 1)

\* the while loop: output after the pipe is read to its end
RECURSIVE ReadPipe(_)
ReadPipe(rest) ==
    IF rest = <<>> THEN <<>>
    ELSE LET buf == fgets(rest)
         IN  CString(buf) \o ReadPipe(SubSeq(rest, Len(buf) + 1, Len(rest)))

\* faulty variant: an output of exactly the limit is cut and marked as well
LimitOutput_Inclusive(output) ==
    IF Len(output) >= OUTPUT_LIMIT
    THEN SubSeq(output, 1, OUTPUT_LIMIT) \o TruncationMarker
    ELSE output

\* if (output.size() > 2000) output = output.substr(0, 2000) + marker
LimitOutput(output) ==
    IF Len(output) > OUTPUT_LIMIT
    THEN SubSeq(output, 1, OUTPUT_LIMIT) \o TruncationMarker
    ELSE output

\* pclose and the exit code made of its status
ExitCode(status) == IF WIFEXITED(status) THEN WEXITSTATUS(status) ELSE -1

\* executeAndCapture as a whole, for a child k: whether popen succeeds, the
\* bytes the command prints to stdout and stderr, the status pclose returns
Capture(k) ==
    IF ~k.spawn
    THEN [exit_code |-> -1, output |-> SpawnFailure]
    ELSE [exit_code |-> ExitCode(k.status), output |-> LimitOutput(ReadPipe(k.out))]

\* n bytes of text with a newline after every w bytes (none for w = 0)
Text(n, w) == [k \in 1..n |-> IF w > 0 /\ k % w = 0 THEN "\n" ELSE "x"]

\* the children of the process model: whether popen succeeds, how many bytes
\* the command prints, and how it ends ("sig" = by a signal)
Children == { [spawn |-> FALSE, len |-> 0, status |-> "sig"],
              [spawn |-> TRUE, len |-> 5, status |-> "exit0"],
              [spawn |-> TRUE, len |-> OUTPUT_LIMIT + 1, status |-> "exit1"] }

\* the SIGKILL signal number
SIGKILL == 9

ChildOf(c) ==
    [spawn  |-> c.spawn,
     out    |-> Text(c.len, 0),
     status |-> CASE c.status = "exit0" -> W_EXITCODE(0)
                  [] c.status = "exit1" -> W_EXITCODE(1)
                  [] OTHER              -> SIGKILL]

\* a captured output in short: its kind and the number of bytes kept
Summary(output) ==
    IF output = SpawnFailure THEN <<"Failed to execute command">>
    ELSE IF /\ Len(output) = OUTPUT_LIMIT + Len(TruncationMarker)
            /\ SubSeq(output, OUTPUT_LIMIT + 1, Len(output)) = TruncationMarker
    THEN <<"bytes", ToString(OUTPUT_LIMIT), "\n... [output truncated]">>
    ELSE <<"bytes", ToString(Len(output))>>

CaptureTable ==
    [c \in Children |->
        LET r == Capture(ChildOf(c))
        IN  [exit_code |-> r.exit_code, output |-> Summary(r.output)]]

\* executeAndCapture(command) in the process model, for the child the command
\* turns out to be
executeAndCapture(child) == CaptureTable[child]

\* the user turn addCommandOutput builds
CommandContext(command, output) ==
    <<"I executed: ">> \o command \o <<"\n\nOutput:\n">> \o output

AckText == <<"Got it. I'll remember this output for context.">>

-----------------------------------------------------------------------------
(* Inputs of the process model *)

Modes == {"console", "run", "stream", "explain", "whatif"}

SessionPath == "~/.tt/s.json"

\* n turns written by earlier runs
OldTurns(n) ==
    [k \in 1..n |-> Turn(IF k % 2 = 1 THEN "user" ELSE "model", <<"old", ToString(k)>>)]

\* lengths of the array found in the session file at start
InitLens == {0, 1, 2 * MAX_HISTORY_TURNS - 1, 2 * MAX_HISTORY_TURNS,
             2 * MAX_HISTORY_TURNS + 3}

InitFiles ==
    { FileAbsent, [kind |-> "empty", turns |-> <<>>],
      [kind |-> "corrupt", turns |-> <<>>],
      [kind |-> "nonarray", turns |-> <<>>] }
    \cup { FileOf(OldTurns(n)) : n \in InitLens }

\* the file system a named session may find: a missing file in a directory
\* that does or does not allow creating it, or an existing file that is or
\* is not writable
InitFs ==
    { [file |-> FileAbsent, fileRO |-> FALSE, dirOK |-> d] : d \in BOOLEAN }
    \cup { [file |-> f, fileRO |-> ro, dirOK |-> TRUE] :
              f \in InitFiles \ {FileAbsent}, ro \in BOOLEAN }

Query == <<"q">>

\* the reply texts the remote model gives in the process model
ProcReplies ==
    { <<"{", "x_ls", "}">>,
      <<"p", "{", "x_sudo", "}", "p">>,
      <<"{", "x_rm", "}">>,
      <<"{", "p_ok", "}">>,
      <<"{", "u_other", "}">>,
      <<"{", "c_sudo", "}">>,
      <<"{", "c_ls", "}">>,
      <<"p">> }

ProcRes == { Res(k, <<>>) : k \in FailKinds } \cup { Res("ok", t) : t \in ProcReplies }

Answers == {"yes", "y", "Yes", "no", ""}

\* one remote call as recorded in net.last: which client function made it,
\* how the remote answered, what was sent, and what sendRequest returned
Call(api, kind, prompt, use_history, contents, success, text) ==
    [api |-> api, kind |-> kind, prompt |-> prompt, use_history |-> use_history,
     contents |-> contents, success |-> success, text |-> text, tokens |-> 0]

\* a call of countSessionTokens() as recorded in net.last, with the int it
\* returned; kind is "none" when it returned without a request
TokenCall(kind, contents, tokens) ==
    [Call("countSessionTokens", kind, <<>>, FALSE, contents, tokens >= 0, <<>>)
        EXCEPT !.tokens = tokens]

NoCall == Call("none", "none", <<>>, FALSE, <<>>, FALSE, <<>>)

-----------------------------------------------------------------------------
(* The client's other public functions *)

\* faulty variant: the probe is sent as a request that counts toward history
validate_WithHistory(i, f, res) ==
    sendRequest(i, f, <<"Respond with only the word OK">>, TRUE, res)

\* validate(error_message): one sendRequest with use_history = false
validate(i, f, res) ==
    sendRequest(i, f, <<"Respond with only the word OK">>, FALSE, res)

\* what the countTokens endpoint may answer: no response, a non-200 status, a
\* body that is no JSON, JSON without totalTokens, totalTokens that is no
\* number, or a count
TokenKinds == {"neterr", "http_err", "badjson", "nototal", "nonint", "count"}

\* the largest value of int
INT_MAX == 2147483647

TokenCounts == {0, 500000, 800000, INT_MAX}

TokenRes == { [kind |-> k, tokens |-> 0] : k \in TokenKinds \ {"count"} }
            \cup { [kind |-> "count", tokens |-> n] : n \in TokenCounts }

\* json_res["totalTokens"].get<int>() of a number in the range of int (every
\* integer of this model is one): the number itself
get_int(n) == IF n <= INT_MAX THEN n ELSE n - INT_MAX - INT_MAX - 2

\* faulty variant: a failure is reported as a count of 0
countSessionTokens_ZeroOnFailure(i, f, res) ==
    IF ~Named(i) \/ i.history = <<>>
    THEN [tokens |-> 0, posts |-> 0, contents |-> <<>>, impl |-> i, fs |-> f]
    ELSE [tokens   |-> IF res.kind = "count" THEN get_int(res.tokens) ELSE 0,
          posts    |-> 1,
          contents |-> i.history,
          impl     |-> i,
          fs       |-> f]

\* faulty variant: a failed count request is sent a second time
countSessionTokens_Retry(i, f, res) ==
    IF ~Named(i) \/ i.history = <<>>
    THEN [tokens |-> 0, posts |-> 0, contents |-> <<>>, impl |-> i, fs |-> f]
    ELSE [tokens   |-> IF res.kind = "count" THEN get_int(res.tokens) ELSE -1,
          posts    |-> IF res.kind = "count" THEN 1 ELSE 2,
          contents |-> i.history,
          impl     |-> i,
          fs       |-> f]

\* countSessionTokens(): 0 without a request for an ephemeral or empty
\* session, else one Post of the history on a client of its own; -1 on every
\* failure.  posts is the number of requests it tries.
countSessionTokens(i, f, res) ==
    IF ~Named(i) \/ i.history = <<>>
    THEN [tokens |-> 0, posts |-> 0, contents |-> <<>>, impl |-> i, fs |-> f]
    ELSE [tokens   |-> IF res.kind = "count" THEN get_int(res.tokens) ELSE -1,
          posts    |-> 1,
          contents |-> i.history,
          impl     |-> i,
          fs       |-> f]

\* the contents array of the two streaming functions (lines 414-421, 502-513)
StreamContents(i, text) ==
    (IF Named(i) /\ i.history # <<>> THEN i.history ELSE <<>>)
        \o << Turn("user", text) >>

\* the two addToHistory calls that end generateContentStreaming and make up
\* addCommandOutput: the second is not reached when the first throws
AppendPair(i, f, user_text, model_text) ==
    LET a == addToHistory(i, f, "user", user_text)
        b == addToHistory(a.impl, a.fs, "model", model_text)
        r == IF a.threw THEN a ELSE b
    IN  [impl |-> r.impl, fs |-> r.fs, threw |-> r.threw,
         pushed |-> IF ~Named(i) THEN <<>>
                    ELSE IF a.threw THEN << Turn("user", user_text) >>
                    ELSE << Turn("user", user_text), Turn("model", model_text) >>]

\* addCommandOutput(command, output)
addCommandOutput(i, f, command, output) ==
    AppendPair(i, f, CommandContext(command, output), AckText)

\* generateContentStreaming(prompt, on_chunk) from curl_easy_cleanup on
\* (lines 544-548): the raw prompt and the accumulated text are appended
generateContentStreaming(i, f, prompt, accumulated) ==
    IF ~Named(i) THEN [impl |-> i, fs |-> f, threw |-> FALSE, pushed |-> <<>>]
    ELSE AppendPair(i, f, prompt, accumulated)

-----------------------------------------------------------------------------
(* The process: main() *)

NoStream == <<>>

IdleStream == /\ stream = NoStream /\ pos = 0
              /\ ctx = NewCtx(TRUE) /\ sink = <<>>

NotClassified == [kind |-> "none", result |-> Smart("none", <<>>, <<>>, <<>>, FALSE)]

IdleClassify == reply = <<>> /\ classified = [sync |-> NotClassified, streaming |-> NotClassified]

NoVerdict == [gate |-> "none", sim |-> "none"]

NoShared == [disk |-> <<>>, procs |-> <<>>, last |-> 0]

NoChild == [spawn |-> FALSE, out |-> <<>>, status |-> 0, how |-> "none", code |-> 0]

NoParsed ==
    [parsed    |-> FALSE,
     result    |-> [executable |-> <<>>, args |-> <<>>, flags |-> <<>>,
                    raw_input |-> <<>>, is_question |-> FALSE],
     extracted |-> FALSE,
     intent    |-> <<>>]

IdleAside ==
    /\ verdict = NoVerdict /\ shared = NoShared
    /\ pipe = NoChild /\ parsed = NoParsed

Init ==
    /\ mode \in Modes
    /\ \E sp \in {"", SessionPath} :
         /\ fs \in (IF sp = "" THEN {[file |-> FileAbsent, fileRO |-> FALSE, dirOK |-> TRUE]}
                    ELSE InitFs)
         /\ impl = [session_path |-> sp, history |-> loadSession(sp, fs.file)]
    /\ pc = IF LoadThrows(impl.session_path, fs.file) THEN "terminated"
            ELSE IF mode = "console" THEN "prompt" ELSE "tokens"
    /\ resp = NoResp
    /\ cmd = <<>>
    /\ answer = "not asked"
    /\ executed = <<>>
    /\ net = [posts |-> 0, probes |-> 0, calls |-> 0, last |-> NoCall]
    /\ out = [err |-> FALSE, exit |-> 0]
    /\ allTurns = impl.history
    /\ appends = 0
    /\ lines = 0
    /\ IdleStream
    /\ IdleClassify
    /\ IdleAside

\* main(), before the mode is looked at: with a session name,
\* gemini.countSessionTokens(); the count only decides which notice is
\* printed.  Console mode returns before this point.
TokenCheck ==
    /\ mode \in Modes \ {"console"} /\ pc = "tokens"
    /\ \E res \in TokenRes :
         LET t == countSessionTokens(impl, fs, res)
         IN  /\ impl' = t.impl
             /\ fs' = t.fs
             /\ net' = IF Named(impl)
                       THEN [posts |-> net.posts + t.posts,
                             probes |-> net.probes + t.posts,
                             calls |-> net.calls + 1,
                             last |-> TokenCall(IF t.posts = 0 THEN "none" ELSE res.kind,
                                           t.contents, t.tokens)]
                       ELSE net
    /\ pc' = "start"
    /\ UNCHANGED << mode, resp, cmd, answer, executed, out, allTurns, appends,
                    lines, stream, pos, ctx, sink, reply, classified, verdict, shared, pipe, parsed >>

\* the bookkeeping of one synchronous client call with result r
SyncCall(api, r, res, prompt, use_history) ==
    /\ impl' = r.impl
    /\ fs' = r.fs
    /\ net' = [posts |-> net.posts + r.posts, probes |-> net.probes, calls |-> net.calls + 1,
               last |-> Call(api, res.kind, prompt, use_history, r.contents,
                             r.sent.success, res.text)]
    /\ IF res.kind = "ok" /\ use_history /\ Named(impl)
       THEN /\ allTurns' = allTurns \o << Turn("user", prompt), Turn("model", res.text) >>
            /\ appends' = appends + 1
       ELSE UNCHANGED << allTurns, appends >>

\* after the command text is known: trim it, run the danger check
Dispatch(command) ==
    /\ cmd' = TrimWs(command)
    /\ answer' = "not asked"
    /\ pc' = IF isDangerousCommand(TrimWs(command)) THEN "confirm" ELSE "exec"

\* where main() goes when the command branch is over
AfterCommand(code) ==
    IF mode = "console"
    THEN /\ pc' = "prompt"
         /\ UNCHANGED out
    ELSE /\ pc' = "done"
         /\ out' = [out EXCEPT !.exit = code]

\* --console: one line is read and handled up to the danger check
ConsoleLine ==
    /\ mode = "console" /\ pc = "prompt"
    /\ \E line \in {"<eof>", "exit", "clear", "query"} :
         IF line \in {"<eof>", "exit"}
         THEN /\ pc' = "done"
              /\ out' = [out EXCEPT !.exit = 0]
              /\ UNCHANGED << impl, fs, resp, cmd, answer, net, allTurns, appends, lines >>
         ELSE /\ lines < MaxLines
              /\ lines' = lines + 1
              /\ IF line = "clear"
                 THEN UNCHANGED << impl, fs, resp, cmd, answer, net, allTurns,
                                   appends, pc, out >>
                 ELSE \E res \in ProcRes :
                        LET r == smartQuery(impl, fs, Query, res)
                        IN  /\ SyncCall("smartQuery", r, res, Prompt("smart", Query), TRUE)
                            /\ resp' = r.resp
                            /\ out' = [out EXCEPT !.err = ~r.resp.success]
                            /\ IF r.resp.success /\ r.resp.type = "EXECUTE"
                               THEN Dispatch(r.resp.command)
                               ELSE /\ pc' = "prompt"
                                    /\ UNCHANGED << cmd, answer >>
    /\ UNCHANGED << mode, executed, stream, pos, ctx, sink, reply, classified, verdict, shared, pipe, parsed >>

\* --run: getCommandForTask, up to the danger check
RunQuery ==
    /\ mode = "run" /\ pc = "start"
    /\ \E res \in ProcRes, s0 \in BOOLEAN :
         LET r == getCommandForTask(impl, fs, Query, res, s0)
         IN  /\ SyncCall("getCommandForTask", r, res, Prompt("task", Query), TRUE)
             /\ resp' = r.resp
             /\ IF ~r.resp.success
                THEN /\ pc' = "done"
                     /\ out' = [err |-> TRUE, exit |-> 1]
                     /\ UNCHANGED << cmd, answer >>
                ELSE /\ Dispatch(r.resp.content)
                     /\ UNCHANGED out
    /\ UNCHANGED << mode, executed, lines, stream, pos, ctx, sink, reply, classified, verdict, shared, pipe, parsed >>

\* the confirmation prompt of a dangerous command
Confirm ==
    /\ pc = "confirm"
    /\ \E a \in Answers :
         /\ answer' = a
         /\ IF askDangerousConfirmation(a)
            THEN /\ pc' = "exec"
                 /\ UNCHANGED out
            ELSE AfterCommand(0)
    /\ UNCHANGED << impl, fs, mode, resp, cmd, executed, net, allTurns, appends, lines,
                    stream, pos, ctx, sink, reply, classified, verdict, shared, pipe, parsed >>

\* executeAndCapture(cmd)
Execute ==
    /\ pc = "exec"
    /\ \E child \in Children :
         LET x == executeAndCapture(child)
         IN  /\ executed' = Append(executed, [cmd |-> cmd, answer |-> answer,
                                              exit_code |-> x.exit_code,
                                              output |-> x.output])
             /\ IF Named(impl)
                THEN /\ pc' = "addout"
                     /\ UNCHANGED out
                ELSE AfterCommand(x.exit_code)
    /\ UNCHANGED << impl, fs, mode, resp, cmd, answer, net, allTurns, appends, lines,
                    stream, pos, ctx, sink, reply, classified, verdict, shared, pipe, parsed >>

\* one addToHistory(role, text) made by the caller of the client; an exception
\* of saveSession() reaches main(), which has no handler
AppendStep(role, text, Continue) ==
    LET a == addToHistory(impl, fs, role, text)
    IN  /\ impl' = a.impl
        /\ fs' = a.fs
        /\ allTurns' = Append(allTurns, Turn(role, text))
        /\ appends' = appends + 1
        /\ IF a.threw
           THEN /\ pc' = "terminated"
                /\ out' = [out EXCEPT !.exit = 134]
           ELSE Continue
        /\ UNCHANGED << mode, resp, cmd, answer, executed, net, lines,
                        stream, pos, ctx, sink, reply, classified, verdict, shared, pipe, parsed >>

LastRun == executed[Len(executed)]

\* addCommandOutput(cmd, output): the "user" turn
AddOutputUser ==
    /\ pc = "addout"
    /\ AppendStep("user", CommandContext(LastRun.cmd, LastRun.output),
                  pc' = "ack" /\ UNCHANGED out)

\* addCommandOutput(cmd, output): the "model" turn
AddOutputModel ==
    /\ pc = "ack"
    /\ AppendStep("model", AckText, AfterCommand(LastRun.exit_code))

\* the event streams of the process model: two text events, and the body of
\* an HTTP error reply (no event line)
EventLine(tok) == Marker \o <<tok, "\n">>

ProcStreams == { EventLine("Ec") \o EventLine("Ec"), <<"{", "}", "\n">> }

\* default mode: generateContentStreaming(query, sink) up to curl_easy_cleanup.
\* curl_easy_init may fail; curl_easy_perform delivers the body in writes and
\* its CURLcode is not looked at.
StreamQuery ==
    /\ mode = "stream" /\ pc = "start"
    /\ \E curl \in {"noinit", "ok", "curl_err"}, s \in ProcStreams :
         \E k \in 0..Len(s) : \E m \in 0..k :
           /\ curl = "ok" => k = Len(s)
           /\ curl = "noinit" => k = 0
           /\ LET w1 == curlWriteCallback(NewCtx(TRUE), <<>>, SubSeq(s, 1, m))
                  w2 == curlWriteCallback(w1.ctx, w1.sink, SubSeq(s, m + 1, k))
              IN  /\ stream' = s
                  /\ pos' = k
                  /\ ctx' = w2.ctx
                  /\ sink' = w2.sink
           /\ net' = [posts |-> net.posts + (IF curl = "noinit" THEN 0 ELSE 1),
                      probes |-> net.probes,
                      calls |-> net.calls + 1,
                      last |-> Call("generateContentStreaming",
                                    IF curl = "ok" /\ s = <<"{", "}", "\n">>
                                    THEN "http_err" ELSE curl,
                                    Query, TRUE,
                                    Contents(impl, Prompt("plain", Query), TRUE),
                                    FALSE, <<>>)]
           /\ pc' = IF curl = "noinit" \/ ~Named(impl) THEN "done" ELSE "gen_user"
    /\ out' = [err |-> FALSE, exit |-> 0]
    /\ UNCHANGED << impl, fs, mode, resp, cmd, answer, executed, allTurns, appends,
                    lines, reply, classified, verdict, shared, pipe, parsed >>

\* generateContentStreaming: addToHistory("user", prompt)
GenAddUser ==
    /\ pc = "gen_user"
    /\ AppendStep("user", Query, pc' = "gen_model" /\ UNCHANGED out)

\* generateContentStreaming: addToHistory("model", ctx.accumulated)
GenAddModel ==
    /\ pc = "gen_model"
    /\ AppendStep("model", ctx.accumulated, pc' = "done" /\ UNCHANGED out)

\* explain / eli5: one sendRequest, an error is printed and main returns 1
ExplainQuery ==
    /\ mode = "explain" /\ pc = "start"
    /\ \E res \in ProcRes :
         LET r == sendRequest(impl, fs, Prompt("explain", Query), TRUE, res)
         IN  /\ SyncCall("explainCommand", r, res, Prompt("explain", Query), TRUE)
             /\ resp' = r.resp
             /\ out' = [err |-> ~r.resp.success, exit |-> IF r.resp.success THEN 0 ELSE 1]
    /\ pc' = "done"
    /\ UNCHANGED << mode, cmd, answer, executed, lines, stream, pos, ctx, sink,
                    reply, classified, verdict, shared, pipe, parsed >>

\* whatif: Simulator::simulate shows the error text as the prediction and
\* main returns 0
WhatIf ==
    /\ mode = "whatif" /\ pc = "start"
    /\ \E res \in ProcRes :
         LET r == sendRequest(impl, fs, Prompt("simulate", Query), TRUE, res)
         IN  /\ SyncCall("generateContent", r, res, Prompt("simulate", Query), TRUE)
             /\ resp' = r.resp
             /\ out' = [err |-> ~r.resp.success, exit |-> 0]
    /\ pc' = "done"
    /\ UNCHANGED << mode, cmd, answer, executed, lines, stream, pos, ctx, sink,
                    reply, classified, verdict, shared, pipe, parsed >>

Next ==
    \/ TokenCheck
    \/ ConsoleLine
    \/ RunQuery
    \/ Confirm
    \/ Execute
    \/ AddOutputUser
    \/ AddOutputModel
    \/ StreamQuery
    \/ GenAddUser
    \/ GenAddModel
    \/ ExplainQuery
    \/ WhatIf

Spec == Init /\ [][Next]_vars

-----------------------------------------------------------------------------
(* Streaming decode on its own: smartQueryStreaming with the transport       *)
(* delivering the body in writes of any sizes                                *)

\* the lines an event stream is built from
StreamLines ==
    { Marker \o <<"Ea">>,              \* well formed
      Marker \o <<"Eb">>,              \* well formed
      Marker \o <<"junk">>,            \* the marker with a malformed fragment
      Marker \o <<"notext">>,          \* JSON without a text to extract
      Marker,                          \* the marker with nothing after it
      <<" ">> \o Marker \o <<"Ea">>,   \* the marker not at the start of the line
      <<>> }                           \* the empty line that ends an event

LineEnds == { <<"\n">>, <<"\r", "\n">> }

\* bodies of up to n terminated lines
RECURSIVE BodiesOf(_)
BodiesOf(n) ==
    IF n = 0 THEN { <<>> }
    ELSE BodiesOf(n - 1) \cup
         { s \o l \o e : s \in BodiesOf(n - 1), l \in StreamLines, e \in LineEnds }

\* bodies of up to n lines, the last of which may lack its terminator
StreamsOf(n) ==
    BodiesOf(n) \cup { s \o l : s \in BodiesOf(n - 1), l \in StreamLines }

Ephemeral == [session_path |-> "", history |-> <<>>]

NoFs == [file |-> FileAbsent, fileRO |-> FALSE, dirOK |-> TRUE]

\* the variables of the process that a stand-alone call does not touch
IdleProcess ==
    /\ impl = Ephemeral /\ fs = NoFs
    /\ cmd = <<>> /\ answer = "not asked" /\ executed = <<>>
    /\ out = [err |-> FALSE, exit |-> 0]
    /\ allTurns = <<>> /\ appends = 0 /\ lines = 0

InitStream ==
    /\ mode = "smartQueryStreaming" /\ pc = "streaming"
    /\ stream \in StreamsOf(MaxEvents)
    /\ pos = 0
    /\ ctx = NewCtx(TRUE)
    /\ sink = <<>>
    /\ resp = NoResp
    /\ net = [posts |-> 1, probes |-> 0, calls |-> 1,
              last |-> Call("smartQueryStreaming", "pending", Query, TRUE,
                            Contents(Ephemeral, Prompt("smart", Query), TRUE),
                            FALSE, <<>>)]
    /\ IdleProcess
    /\ IdleClassify
    /\ IdleAside

\* the transport hands the next n bytes to curlWriteCallback
Deliver ==
    /\ pc = "streaming"
    /\ \E n \in 1..(Len(stream) - pos) :
         LET w == curlWriteCallback(ctx, sink, SubSeq(stream, pos + 1, pos + n))
         IN  /\ ctx' = w.ctx
             /\ sink' = w.sink
             /\ pos' = pos + n
    /\ UNCHANGED << impl, fs, mode, pc, resp, cmd, answer, executed, net, out,
                    allTurns, appends, lines, stream, reply, classified, verdict, shared, pipe, parsed >>

\* curl_easy_perform returns: CURLE_OK once the whole body was delivered, or an
\* error at any point; then the accumulated text is classified
StreamClose ==
    /\ pc = "streaming"
    /\ \E curl \in {"ok", "curl_err"}, t0 \in IndeterminateTypes :
         /\ curl = "ok" => pos = Len(stream)
         /\ resp' = IF curl = "ok" THEN StreamParse(ctx.accumulated, t0)
                    ELSE Smart("ERROR", <<>>, <<>>, <<"Curl error: ">>, FALSE)
         /\ net' = [net EXCEPT !.last.kind = curl]
    /\ pc' = "closed"
    /\ UNCHANGED << impl, fs, mode, cmd, answer, executed, out, allTurns, appends,
                    lines, stream, pos, ctx, sink, reply, classified, verdict, shared, pipe, parsed >>

NextStream == Deliver \/ StreamClose

SpecStream == InitStream /\ [][NextStream]_vars

-----------------------------------------------------------------------------
(* The intent classifier on its own: every reply text, classified by         *)
(* smartQuery and by smartQueryStreaming                                     *)

BraceChars == {"{", "}", "p"}

\* the JSON values a reply may hold besides braces and prose
ValueTokens == {"7", "x_ls", "x_nocmd", "x_bad_e", "p_ok", "p_noresp", "u_other",
                "t_num", "c_ls"}

InsertAt(s, k, x) == SubSeq(s, 1, k - 1) \o <<x>> \o SubSeq(s, k, Len(s))

\* every text of at most n characters over braces and prose, with at most one
\* value token in it
RepliesOf(n) ==
    UNION { [1..m -> BraceChars] : m \in 0..n }
    \cup UNION { { InsertAt(s, k, v) : s \in [1..(m - 1) -> BraceChars],
                                       k \in 1..m, v \in ValueTokens } : m \in 1..n }

ClassifyRes == {"ok", "neterr", "http_err", "badjson"}

InitClassify ==
    /\ mode = "classify" /\ pc = "start"
    /\ reply \in RepliesOf(MaxReplyLen)
    /\ classified = [sync |-> NotClassified, streaming |-> NotClassified]
    /\ resp = NoResp
    /\ net = [posts |-> 0, probes |-> 0, calls |-> 0, last |-> NoCall]
    /\ IdleProcess
    /\ IdleStream
    /\ IdleAside

\* smartQuery(query) with the remote replying `reply`, or failing
ClassifySync ==
    /\ mode = "classify" /\ classified.sync.kind = "none"
    /\ \E k \in ClassifyRes :
         LET res == Res(k, IF k = "ok" THEN reply ELSE <<>>)
             r   == smartQuery(impl, fs, Query, res)
         IN  /\ classified' = [classified EXCEPT !.sync = [kind |-> k, result |-> r.resp]]
             /\ resp' = r.resp
             /\ net' = [posts |-> net.posts + r.posts, probes |-> net.probes, calls |-> net.calls + 1,
                        last |-> Call("smartQuery", k, Prompt("smart", Query), TRUE,
                                      r.contents, r.sent.success, res.text)]
    /\ UNCHANGED << impl, fs, mode, pc, cmd, answer, executed, out, allTurns, appends,
                    lines, stream, pos, ctx, sink, reply, verdict, shared, pipe, parsed >>

\* smartQueryStreaming(query, sink) with `reply` as the accumulated text, or
\* with curl_easy_perform failing
ClassifyStreaming ==
    /\ mode = "classify" /\ classified.streaming.kind = "none"
    /\ \E curl \in {"ok", "curl_err"}, t0 \in IndeterminateTypes :
         /\ curl = "curl_err" => t0 = "ERROR"
         /\ LET r == IF curl = "ok" THEN StreamParse(reply, t0)
                     ELSE Smart("ERROR", <<>>, <<>>, <<"Curl error: ">>, FALSE)
            IN  /\ classified' = [classified EXCEPT
                                    !.streaming = [kind |-> curl, result |-> r]]
                /\ resp' = r
    /\ UNCHANGED << impl, fs, mode, pc, cmd, answer, executed, net, out, allTurns,
                    appends, lines, stream, pos, ctx, sink, reply, verdict, shared, pipe, parsed >>

NextClassify == ClassifySync \/ ClassifyStreaming

SpecClassify == InitClassify /\ [][NextClassify]_vars

-----------------------------------------------------------------------------
(* The client on its own: its public functions called in any order on any    *)
(* session, with the remote answering in any way                             *)

ClientReplies == { <<"p">>, <<"{", "x_ls", "}">> }

ClientRes == { Res(k, <<>>) : k \in FailKinds } \cup { Res("ok", t) : t \in ClientReplies }

\* calls of client functions made so far, an append counting as one
ClientBudget == net.calls + appends

InitClient ==
    /\ mode = "client"
    /\ \E sp \in {"", SessionPath} :
         /\ fs \in (IF sp = "" THEN {NoFs} ELSE InitFs)
         /\ impl = [session_path |-> sp, history |-> loadSession(sp, fs.file)]
    /\ pc = IF LoadThrows(impl.session_path, fs.file) THEN "terminated" ELSE "idle"
    /\ resp = NoResp
    /\ cmd = <<>> /\ answer = "not asked" /\ executed = <<>>
    /\ net = [posts |-> 0, probes |-> 0, calls |-> 0, last |-> NoCall]
    /\ out = [err |-> FALSE, exit |-> 0]
    /\ allTurns = impl.history
    /\ appends = 0
    /\ lines = 0
    /\ IdleStream
    /\ IdleClassify
    /\ IdleAside

\* generateContent(prompt) or smartQuery(query)
ClientGenerate ==
    /\ mode = "client" /\ pc = "idle" /\ ClientBudget < MaxCalls
    /\ \E api \in {"generateContent", "smartQuery"}, res \in ClientRes :
         LET prompt == Prompt(IF api = "smartQuery" THEN "smart" ELSE "plain", Query)
             r == IF api = "smartQuery" THEN smartQuery(impl, fs, Query, res)
                  ELSE sendRequest(impl, fs, prompt, TRUE, res)
         IN  /\ SyncCall(api, r, res, prompt, TRUE)
             /\ resp' = r.resp
    /\ UNCHANGED << mode, pc, cmd, answer, executed, out, lines, stream, pos, ctx,
                    sink, reply, classified, verdict, shared, pipe, parsed >>

\* validate(error_message)
ClientValidate ==
    /\ mode = "client" /\ pc = "idle" /\ ClientBudget < MaxCalls
    /\ \E res \in ClientRes :
         LET r == validate(impl, fs, res)
         IN  /\ SyncCall("validate", r, res, r.contents[Len(r.contents)].text, FALSE)
             /\ resp' = r.resp
    /\ UNCHANGED << mode, pc, cmd, answer, executed, out, lines, stream, pos, ctx,
                    sink, reply, classified, verdict, shared, pipe, parsed >>

\* countSessionTokens()
ClientCountTokens ==
    /\ mode = "client" /\ pc = "idle" /\ ClientBudget < MaxCalls
    /\ \E res \in TokenRes :
         LET t == countSessionTokens(impl, fs, res)
         IN  /\ impl' = t.impl
             /\ fs' = t.fs
             /\ net' = [posts |-> net.posts + t.posts, probes |-> net.probes + t.posts,
                        calls |-> net.calls + 1,
                        last |-> TokenCall(IF t.posts = 0 THEN "none" ELSE res.kind,
                                           t.contents, t.tokens)]
    /\ UNCHANGED << mode, pc, resp, cmd, answer, executed, out, allTurns, appends,
                    lines, stream, pos, ctx, sink, reply, classified, verdict, shared, pipe, parsed >>

\* smartQueryStreaming(query, on_chunk), the whole call
ClientSmartStreaming ==
    /\ mode = "client" /\ pc = "idle" /\ ClientBudget < MaxCalls
    /\ \E curl \in {"ok", "curl_err"}, text \in ClientReplies, t0 \in IndeterminateTypes :
         /\ curl = "curl_err" => t0 = "ERROR"
         /\ resp' = IF curl = "ok" THEN StreamParse(text, t0)
                    ELSE Smart("ERROR", <<>>, <<>>, <<"Curl error: ">>, FALSE)
         /\ net' = [posts |-> net.posts + 1, probes |-> net.probes, calls |-> net.calls + 1,
                    last |-> Call("smartQueryStreaming", curl, Prompt("smart", Query),
                                  TRUE, StreamContents(impl, Prompt("smart", Query)),
                                  resp'.success, text)]
    /\ UNCHANGED << impl, fs, mode, pc, cmd, answer, executed, out, allTurns, appends,
                    lines, stream, pos, ctx, sink, reply, classified, verdict, shared, pipe, parsed >>

\* bookkeeping of a pair of addToHistory calls with result g
Appended(g) ==
    /\ impl' = g.impl
    /\ fs' = g.fs
    /\ allTurns' = allTurns \o g.pushed
    /\ pc' = IF g.threw THEN "terminated" ELSE "idle"

\* generateContentStreaming(prompt, on_chunk), the whole call
ClientGenStreaming ==
    /\ mode = "client" /\ pc = "idle" /\ ClientBudget < MaxCalls
    /\ \E curl \in {"ok", "curl_err"}, text \in ClientReplies :
         LET accumulated == IF curl = "ok" THEN text ELSE <<>>
             g == generateContentStreaming(impl, fs, Query, accumulated)
         IN  /\ Appended(g)
             /\ appends' = appends + (IF Named(impl) THEN 1 ELSE 0)
             /\ net' = [posts |-> net.posts + 1, probes |-> net.probes, calls |-> net.calls + 1,
                        last |-> Call("generateContentStreaming", curl,
                                      Prompt("plain", Query), TRUE,
                                      StreamContents(impl, Prompt("plain", Query)),
                                      FALSE, accumulated)]
    /\ UNCHANGED << mode, resp, cmd, answer, executed, out, lines, stream, pos, ctx,
                    sink, reply, classified, verdict, shared, pipe, parsed >>

\* addCommandOutput(command, output)
ClientAddOutput ==
    /\ mode = "client" /\ pc = "idle" /\ ClientBudget < MaxCalls
    /\ Appended(addCommandOutput(impl, fs, CmdLs, <<"bytes", "5">>))
    /\ appends' = appends + 1
    /\ UNCHANGED << mode, resp, cmd, answer, executed, net, out, lines, stream, pos,
                    ctx, sink, reply, classified, verdict, shared, pipe, parsed >>

NextClient ==
    \/ ClientGenerate
    \/ ClientValidate
    \/ ClientCountTokens
    \/ ClientSmartStreaming
    \/ ClientGenStreaming
    \/ ClientAddOutput

SpecClient == InitClient /\ [][NextClient]_vars
-----------------------------------------------------------------------------
(* The two danger checks: isDangerousCommand (main.cpp), which gates the
   execution of a command, and Simulator::isDangerous (Simulator.cpp), which
   marks a simulated command as destructive *)

toupper(c) ==
    IF \E i \in 1..Len(LowerCase) : LowerCase[i] = c
    THEN UpperCase[CHOOSE i \in 1..Len(LowerCase) : LowerCase[i] = c]
    ELSE c

ToUpper(s) == [i \in 1..Len(s) |-> toupper(s[i])]

\* Simulator::dangerous_patterns_, as the constructor fills it
dangerous_patterns_ ==
    << <<"r", "m", " ", "-", "r", "f">>,
       <<"r", "m", " ", "-", "r", " ", "/">>,
       <<"r", "m", " ", "-", "r", "f", " ", "/">>,
       <<"r", "m", " ", "-", "r", "f", " ", "~">>,
       <<"r", "m", " ", "-", "r", "f", " ", "*">>,
       <<">", " ", "/", "d", "e", "v", "/", "s", "d", "a">>,
       <<"d", "d", " ", "i", "f", "=">>,
       <<"m", "k", "f", "s", ".">>,
       <<":", "(", ")", "{", ":", "|", ":", "&", "}", ";", ":">>,
       <<"c", "h", "m", "o", "d", " ", "-", "R", " ", "7", "7", "7", " ", "/">>,
       <<"c", "h", "o", "w", "n", " ", "-", "R">>,
       <<"s", "u", "d", "o", " ", "r", "m">>,
       <<"m", "v", " ", "/", "*", " ">>,
       <<"w", "g", "e", "t", ".", "*", "|", ".", "*", "s", "h">>,
       <<"c", "u", "r", "l", ".", "*", "|", ".", "*", "b", "a", "s", "h">> >>

\* the list of Simulator::isDangerous for a command that mentions sudo
dangerous_with_sudo ==
    << <<"r", "m">>,
       <<"d", "d">>,
       <<"m", "k", "f", "s">>,
       <<"c", "h", "m", "o", "d">>,
       <<"c", "h", "o", "w", "n">>,
       <<"m", "v">>,
       <<"c", "p">> >>

\* Simulator::isDangerous: a pattern anywhere in the lowercased command, or
\* "sudo" anywhere together with one of dangerous_with_sudo anywhere
isDangerous(command) ==
    LET lower == ToLower(command)
    IN  \/ \E i \in 1..Len(dangerous_patterns_) :
              Contains(lower, dangerous_patterns_[i])
        \/ /\ Contains(lower, <<"s", "u", "d", "o">>)
           /\ \E i \in 1..Len(dangerous_with_sudo) :
                 Contains(lower, dangerous_with_sudo[i])

\* the commands handed to the checks
SampleSudoRm == <<"s", "u", "d", "o", " ", "r", "m", " ", "-", "r", "f", " ", "/", "t", "m", "p", "/", "x">>

SampleChmod == <<"c", "h", "m", "o", "d", " ", "7", "7", "7", " ", "/", "e", "t", "c", "/", "p", "a", "s", "s", "w", "d">>

SampleDd == <<"d", "d", " ", "i", "f", "=", "/", "d", "e", "v", "/", "z", "e", "r", "o", " ", "o", "f", "=", "/", "d", "e", "v", "/", "s", "d", "a">>

SampleLs == <<"l", "s", " ", "-", "l", "a", " ", "/", "h", "o", "m", "e">>

Samples == {SampleSudoRm, SampleChmod, SampleDd, SampleLs}

\* a command in the letter cases a user or the model may write it in
Cases(s) == {s, ToUpper(s), ToLower(s)}

\* an entry of DANGEROUS_COMMANDS at the start of a command, after a pipe
\* with and without a blank, and after "sudo " at the start and further on
Placed(e) ==
    { e \o <<" ", "x">>,
      <<"l", "s", " ", "|", " ">> \o e \o <<" ", "x">>,
      <<"l", "s", " ", "|">> \o e \o <<" ", "x">>,
      <<"s", "u", "d", "o", " ">> \o e \o <<" ", "x">>,
      <<"n", "i", "c", "e", " ", "s", "u", "d", "o", " ">> \o e \o <<" ", "x">> }

EntryInputs ==
    UNION { Cases(p) : p \in UNION { Placed(DANGEROUS_COMMANDS[i]) :
                                       i \in 1..Len(DANGEROUS_COMMANDS) } }

\* commands that hold sudo somewhere and a modifying command somewhere
CompoundInputs ==
    UNION { { <<"s", "u", "d", "o", " ">> \o dangerous_with_sudo[i] \o <<" ", "a", " ", "b">>,
              <<"c", "d", " ", "/", "t", "m", "p", " ", "&", "&", " ">> \o <<"s", "u", "d", "o", " ">> \o dangerous_with_sudo[i] \o <<" ", "a", " ", "b">>,
              <<"n", "i", "c", "e", " ", "s", "u", "d", "o", " ">> \o dangerous_with_sudo[i] \o <<" ", "a", " ", "b">>,
              dangerous_with_sudo[i] \o <<" ", "a", " ", "b">> \o <<";", " ", "s", "u", "d", "o", " ", "l", "s">> } :
            i \in 1..Len(dangerous_with_sudo) }

DangerInputs == Samples \cup EntryInputs \cup CompoundInputs

InitDanger ==
    /\ mode = "danger" /\ pc = "start"
    /\ cmd \in DangerInputs
    /\ verdict = NoVerdict
    /\ shared = NoShared
    /\ pipe = NoChild /\ parsed = NoParsed
    /\ impl = Ephemeral /\ fs = NoFs
    /\ answer = "not asked" /\ executed = <<>>
    /\ out = [err |-> FALSE, exit |-> 0]
    /\ allTurns = <<>> /\ appends = 0 /\ lines = 0
    /\ resp = NoResp
    /\ net = [posts |-> 0, probes |-> 0, calls |-> 0, last |-> NoCall]
    /\ IdleStream
    /\ IdleClassify

\* main(): if (isDangerousCommand(cmd)) before the command is executed
GateCheck ==
    /\ mode = "danger" /\ verdict.gate = "none"
    /\ verdict' = [verdict EXCEPT !.gate = IF isDangerousCommand(cmd) THEN "yes" ELSE "no"]
    /\ UNCHANGED << impl, fs, mode, pc, resp, cmd, answer, executed, net, out,
                    allTurns, appends, lines, stream, pos, ctx, sink, reply,
                    classified, shared, pipe, parsed >>

\* Simulator::simulate(): result.is_destructive = isDangerous(command)
SimCheck ==
    /\ mode = "danger" /\ verdict.sim = "none"
    /\ verdict' = [verdict EXCEPT !.sim = IF isDangerous(cmd) THEN "yes" ELSE "no"]
    /\ UNCHANGED << impl, fs, mode, pc, resp, cmd, answer, executed, net, out,
                    allTurns, appends, lines, stream, pos, ctx, sink, reply,
                    classified, shared, pipe, parsed >>

NextDanger == GateCheck \/ SimCheck

SpecDanger == InitDanger /\ [][NextDanger]_vars

-----------------------------------------------------------------------------
(* Two processes on one session file.  saveSession() opens the file with     *)
(* std::ofstream, which truncates it, and writes history.dump(2) from offset *)
(* 0 when the stream is flushed; nothing locks the file between the two.     *)
(* The file and the directory get their modes from the calls that create     *)
(* them and from the std::filesystem::permissions calls that follow.         *)

\* appends per process
MaxAppends == 2

Procs == {1, 2}

\* the file as a sequence of equally long pieces of text: the brackets of the
\* array and the dump of one turn
Piece(k, t) == [piece |-> k, turn |-> t]

NoTurn == Turn("", <<>>)

\* history.dump(2)
Dump(h) ==
    << Piece("[", NoTurn) >> \o [k \in 1..Len(h) |-> Piece("turn", h[k])]
        \o << Piece("]", NoTurn) >>

\* file >> history reads one JSON value from the start of the stream and
\* leaves what follows it unread; an empty file is a parse_error
ReadPieces(disk) ==
    IF disk = <<>> \/ disk[1].piece # "["
    THEN [kind |-> "corrupt", turns |-> <<>>]
    ELSE LET close == { k \in 2..Len(disk) : disk[k].piece = "]" }
         IN  IF close = {} THEN [kind |-> "corrupt", turns |-> <<>>]
             ELSE LET e == CHOOSE k \in close : \A j \in close : k <= j
                  IN  IF \A k \in 2..(e - 1) : disk[k].piece = "turn"
                      THEN FileOf([k \in 1..(e - 2) |-> disk[k + 1].turn])
                      ELSE [kind |-> "corrupt", turns |-> <<>>]

\* write(fd, dump) at offset 0 of a file another process may have written
\* since this one truncated it: the bytes past the dump stay
WriteAtStart(disk, dump) ==
    dump \o (IF Len(disk) > Len(dump) THEN SubSeq(disk, Len(dump) + 1, Len(disk)) ELSE <<>>)

NewProc == [pc |-> "new", history |-> <<>>, appended |-> 0]

\* permission bits: read, write, execute for user, group and others
AllPerms == {"ur", "uw", "ux", "gr", "gw", "gx", "or", "ow", "ox"}

\* std::filesystem::perms::owner_all, and owner_read | owner_write
owner_all == {"ur", "uw", "ux"}

owner_read_write == {"ur", "uw"}

\* the file mode creation masks a process may run under: 022 and 077
Umasks == { {"gw", "ow"}, AllPerms \ owner_all }

\* the mode of a directory made by create_directories and of a file made by
\* std::ofstream: 0777 and 0666 without the bits of the mask
DirCreateMode(umask) == AllPerms \ umask

FileCreateMode(umask) == (AllPerms \ {"ux", "gx", "ox"}) \ umask

\* what earlier runs left behind: nothing, the directory alone, or the
\* directory with a session file of n turns
StoreKinds == {"nodir", "nofile", "file"}

SharedLens == {0, 1, 2 * MAX_HISTORY_TURNS}

InitShared ==
    /\ mode = "shared" /\ pc = "start"
    /\ \E n \in SharedLens, k \in StoreKinds, u \in Umasks :
         /\ (k = "file") = (n > 0)
         /\ shared = [disk    |-> IF n = 0 THEN <<>> ELSE Dump(OldTurns(n)),
                      procs   |-> [p \in Procs |-> NewProc],
                      last    |-> 0,
                      umask   |-> u,
                      dexists |-> k # "nodir",
                      dperm   |-> IF k = "nodir" THEN {} ELSE owner_all,
                      fexists |-> k = "file",
                      fperm   |-> IF k = "file" THEN owner_read_write ELSE {}]
    /\ verdict = NoVerdict
    /\ pipe = NoChild /\ parsed = NoParsed
    /\ impl = Ephemeral /\ fs = NoFs
    /\ cmd = <<>> /\ answer = "not asked" /\ executed = <<>>
    /\ out = [err |-> FALSE, exit |-> 0]
    /\ allTurns = <<>> /\ appends = 0 /\ lines = 0
    /\ resp = NoResp
    /\ net = [posts |-> 0, probes |-> 0, calls |-> 0, last |-> NoCall]
    /\ IdleStream
    /\ IdleClassify

SharedStep(s) ==
    /\ mode = "shared"
    /\ shared' = s
    /\ UNCHANGED << impl, fs, mode, pc, resp, cmd, answer, executed, net, out,
                    allTurns, appends, lines, stream, pos, ctx, sink, reply,
                    classified, verdict, pipe, parsed >>

\* the constructor of process p: std::filesystem::create_directories(dir)
ProcMkdir(p) ==
    /\ mode = "shared" /\ shared.procs[p].pc = "new"
    /\ SharedStep([shared EXCEPT
           !.dexists = TRUE,
           !.dperm = IF shared.dexists THEN @ ELSE DirCreateMode(shared.umask),
           !.procs[p].pc = "dirperm"])

\* the constructor: std::filesystem::permissions(dir, owner_all, replace)
ProcDirPerm(p) ==
    /\ mode = "shared" /\ shared.procs[p].pc = "dirperm"
    /\ SharedStep([shared EXCEPT !.dperm = owner_all, !.procs[p].pc = "load"])

\* the constructor of process p: loadSession()
ProcLoad(p) ==
    /\ mode = "shared" /\ shared.procs[p].pc = "load"
    /\ SharedStep([shared EXCEPT
           !.procs[p].history = loadSession(SessionPath, ReadPieces(shared.disk)),
           !.procs[p].pc = "ready"])

\* the text process p appends as its n-th turn
OwnText(p, n) == << "p", ToString(p), ToString(n) >>

\* sendRequest pushes the two turns of an exchange, addToHistory one turn;
\* saveSession() then trims the history
ProcPush(p) ==
    /\ mode = "shared" /\ shared.procs[p].pc = "ready"
    /\ shared.procs[p].appended < MaxAppends
    /\ \E pair \in BOOLEAN :
         LET me == shared.procs[p]
             n  == me.appended + 1
             h  == IF pair THEN PushExchange(me.history, OwnText(p, n), OwnText(p, n))
                   ELSE Append(me.history, Turn("user", OwnText(p, n)))
         IN  SharedStep([shared EXCEPT
                 !.procs[p].history = TrimHistory(h),
                 !.procs[p].appended = n,
                 !.procs[p].pc = "open"])

\* std::ofstream file(session_path): the file is truncated, or created with
\* the default mode when it does not exist
ProcOpen(p) ==
    /\ mode = "shared" /\ shared.procs[p].pc = "open"
    /\ SharedStep([shared EXCEPT
           !.disk = <<>>,
           !.fexists = TRUE,
           !.fperm = IF shared.fexists THEN @ ELSE FileCreateMode(shared.umask),
           !.procs[p].pc = "write"])

\* file << history.dump(2); file.close(): the dump goes out at offset 0
ProcWrite(p) ==
    /\ mode = "shared" /\ shared.procs[p].pc = "write"
    /\ SharedStep([shared EXCEPT
           !.disk = WriteAtStart(shared.disk, Dump(shared.procs[p].history)),
           !.last = p,
           !.procs[p].pc = "perm"])

\* std::filesystem::permissions(session_path, owner_read | owner_write, replace)
ProcFilePerm(p) ==
    /\ mode = "shared" /\ shared.procs[p].pc = "perm"
    /\ SharedStep([shared EXCEPT !.fperm = owner_read_write, !.procs[p].pc = "ready"])

NextShared ==
    \E p \in Procs :
        \/ ProcMkdir(p) \/ ProcDirPerm(p) \/ ProcLoad(p)
        \/ ProcPush(p) \/ ProcOpen(p) \/ ProcWrite(p) \/ ProcFilePerm(p)

SpecShared == InitShared /\ [][NextShared]_vars

-----------------------------------------------------------------------------
(* executeAndCapture, call by call to the C library: popen, the fgets loop,  *)
(* pclose and the size limit                                                 *)

\* the numbers of bytes a command prints
CaptureLens == {0, 1, FGETS_SIZE - 1, FGETS_SIZE, OUTPUT_LIMIT - 1, OUTPUT_LIMIT,
                OUTPUT_LIMIT + 1, OUTPUT_LIMIT + FGETS_SIZE + 44}

\* line lengths of the printed text (0: no newline at all)
CaptureWidths == {0, 80}

\* the exit codes of a child that exits
ExitCodes == {0, 1, 127, 255}

\* the statuses of a child ended by a signal: SIGKILL, and SIGSEGV with the
\* core flag
SignalStatuses == {SIGKILL, 11 + 128}

\* how the child ends and the status pclose returns for it; -1 is the return
\* value of a pclose that could not wait for the child
ChildEnds ==
    { [how |-> "exit", code |-> c, status |-> W_EXITCODE(c)] : c \in ExitCodes }
    \cup { [how |-> "signal", code |-> 0, status |-> s] : s \in SignalStatuses }
    \cup { [how |-> "unknown", code |-> 0, status |-> -1] }

CaptureChildren ==
    { [spawn |-> TRUE, out |-> Text(n, w), status |-> e.status, how |-> e.how,
       code |-> e.code] : n \in CaptureLens, w \in CaptureWidths, e \in ChildEnds }
    \cup { [spawn |-> FALSE, out |-> <<>>, status |-> 0, how |-> "nospawn", code |-> 0] }

InitCapture ==
    /\ mode = "capture" /\ pc = "popen"
    /\ pipe \in CaptureChildren
    /\ pos = 0
    /\ reply = <<>>
    /\ sink = <<>>
    /\ executed = <<>>
    /\ stream = <<>> /\ ctx = NewCtx(TRUE)
    /\ classified = [sync |-> NotClassified, streaming |-> NotClassified]
    /\ verdict = NoVerdict /\ shared = NoShared /\ parsed = NoParsed
    /\ impl = Ephemeral /\ fs = NoFs
    /\ cmd = <<"c">> /\ answer = "not asked"
    /\ out = [err |-> FALSE, exit |-> 0]
    /\ allTurns = <<>> /\ appends = 0 /\ lines = 0
    /\ resp = NoResp
    /\ net = [posts |-> 0, probes |-> 0, calls |-> 0, last |-> NoCall]

\* what executeAndCapture returns
Returned(exit_code, output) ==
    << [cmd |-> cmd, answer |-> answer, exit_code |-> exit_code, output |-> output] >>

\* FILE* pipe = popen(cmd.c_str(), "r"), and the return for a null pipe
Popen ==
    /\ mode = "capture" /\ pc = "popen"
    /\ IF pipe.spawn
       THEN pc' = "reading" /\ UNCHANGED executed
       ELSE pc' = "returned" /\ executed' = Returned(-1, SpawnFailure)
    /\ UNCHANGED << impl, fs, mode, resp, cmd, answer, net, out, allTurns, appends,
                    lines, stream, pos, ctx, sink, reply, classified, verdict,
                    shared, pipe, parsed >>

\* one round of the while loop: fgets, output += chunk, std::cout << chunk
Fgets ==
    /\ mode = "capture" /\ pc = "reading" /\ pos < Len(pipe.out)
    /\ LET buf   == fgets(SubSeq(pipe.out, pos + 1, Len(pipe.out)))
           chunk == CString(buf)
       IN  /\ pos' = pos + Len(buf)
           /\ reply' = reply \o chunk
           /\ sink' = Append(sink, chunk)
    /\ UNCHANGED << impl, fs, mode, pc, resp, cmd, answer, executed, net, out,
                    allTurns, appends, lines, stream, ctx, classified, verdict,
                    shared, pipe, parsed >>

\* fgets returns nullptr at the end of the pipe: pclose, the exit code, the
\* size limit and the return
Pclose ==
    /\ mode = "capture" /\ pc = "reading" /\ pos = Len(pipe.out)
    /\ pc' = "returned"
    /\ executed' = Returned(ExitCode(pipe.status), LimitOutput(reply))
    /\ UNCHANGED << impl, fs, mode, resp, cmd, answer, net, out, allTurns, appends,
                    lines, stream, pos, ctx, sink, reply, classified, verdict,
                    shared, pipe, parsed >>

NextCapture == Popen \/ Fgets \/ Pclose

SpecCapture == InitCapture /\ [][NextCapture]_vars

-----------------------------------------------------------------------------
(* CommandParser: tokenize, parse, isQuestion, extractIntent *)

\* words per input text
MaxWords == 3

\* CommandParser::Impl::question_patterns
question_patterns ==
    << <<"c", "o", "m", "o">>,
       <<"w", "h", "a", "t">>,
       <<"h", "o", "w">>,
       <<"w", "h", "y">>,
       <<"q", "u", "a", "n", "d", "o">>,
       <<"w", "h", "e", "r", "e">>,
       <<"q", "u", "a", "l">>,
       <<"q", "u", "a", "i", "s">>,
       <<"o", " ", "q", "u", "e">>,
       <<"p", "o", "r", " ", "q", "u", "e">>,
       <<"p", "o", "r", "q", "u", "e">>,
       <<"e", "x", "p", "l", "a", "i", "n">>,
       <<"e", "x", "p", "l", "i", "q", "u", "e">> >>

\* the prefixes extractIntent removes
prefixes ==
    << <<"c", "o", "m", "o", " ", "e", "u", " ">>,
       <<"c", "o", "m", "o", " ", "p", "o", "s", "s", "o", " ">>,
       <<"h", "o", "w", " ", "d", "o", " ", "i", " ">>,
       <<"h", "o", "w", " ", "c", "a", "n", " ", "i", " ">>,
       <<"o", " ", "q", "u", "e", " ", "f", "a", "z", " ">>,
       <<"w", "h", "a", "t", " ", "d", "o", "e", "s", " ">>,
       <<"m", "e", " ", "e", "x", "p", "l", "i", "c", "a", " ">>,
       <<"e", "x", "p", "l", "a", "i", "n", " ">> >>

Quotes == {"\"", "'"}

\* while (iss >> token): the runs of characters between white space
RECURSIVE SplitWs(_)
SplitWs(s) ==
    IF s = <<>> THEN <<>>
    ELSE IF s[1] \in WhiteSpace THEN SplitWs(Tail(s))
    ELSE LET ws == { k \in 1..Len(s) : s[k] \in WhiteSpace }
             e  == IF ws = {} THEN Len(s) + 1 ELSE CHOOSE k \in ws : \A j \in ws : k <= j
         IN  << SubSeq(s, 1, e - 1) >> \o SplitWs(SubSeq(s, e, Len(s)))

\* the body of the loop of tokenize for the words still to read, with the
\* locals in_quotes, quoted_token and tokens
RECURSIVE TokenizeFrom(_, _, _, _)
TokenizeFrom(words, in_quotes, quoted_token, tokens) ==
    IF words = <<>> THEN tokens
    ELSE LET token == Head(words)
         IN  IF token[1] \in Quotes
             THEN TokenizeFrom(Tail(words), TRUE, Tail(token), tokens)
             ELSE IF in_quotes
             THEN IF token[Len(token)] \in Quotes
                  THEN TokenizeFrom(Tail(words), FALSE, <<>>,
                                    Append(tokens, quoted_token \o <<" ">>
                                                   \o SubSeq(token, 1, Len(token) - 1)))
                  ELSE TokenizeFrom(Tail(words), TRUE,
                                    quoted_token \o <<" ">> \o token, tokens)
             ELSE TokenizeFrom(Tail(words), FALSE, quoted_token, Append(tokens, token))

\* CommandParser::Impl::tokenize
tokenize(input) == TokenizeFrom(SplitWs(input), FALSE, <<>>, <<>>)

\* CommandParser::isQuestion
isQuestion(input) ==
    LET lower == ToLower(input)
    IN  \/ Contains(lower, <<"?">>)
        \/ \E i \in 1..Len(question_patterns) :
              \/ Find(lower, question_patterns[i]) = 1
              \/ Contains(lower, <<" ">> \o question_patterns[i])

IsFlag(token) == token[1] = "-"

IsArg(token) == token[1] # "-"

\* CommandParser::parse
parse(input) ==
    LET tokens == tokenize(input)
        q      == isQuestion(input)
        none   == [executable |-> <<>>, args |-> <<>>, flags |-> <<>>,
                   raw_input |-> input, is_question |-> q]
    IN  IF q \/ tokens = <<>> THEN none
        ELSE [none EXCEPT !.executable = tokens[1],
                          !.flags = SelectSeq(Tail(tokens), IsFlag),
                          !.args = SelectSeq(Tail(tokens), IsArg)]

\* the while loop of extractIntent: trailing '?' and '.' are removed
RECURSIVE StripTrailing(_)
StripTrailing(s) ==
    IF s # <<>> /\ s[Len(s)] \in {"?", "."}
    THEN StripTrailing(SubSeq(s, 1, Len(s) - 1))
    ELSE s

\* CommandParser::extractIntent
extractIntent(question) ==
    LET intent == StripTrailing(question)
        lower  == ToLower(intent)
        hit    == { i \in 1..Len(prefixes) : Find(lower, prefixes[i]) = 1 }
    IN  IF hit = {} THEN intent
        ELSE LET i == CHOOSE k \in hit : \A j \in hit : k <= j
             IN  SubSeq(intent, Len(prefixes[i]) + 1, Len(intent))

\* the words input texts are made of
Words ==
    { <<"l", "s">>,
      <<"-", "l", "a">>,
      <<"/", "h", "o", "m", "e">>,
      <<"'", "*", ".", "c", "p", "p", "'">>,
      <<"'", "a">>,
      <<"b", "'">>,
      <<"w", "h", "a", "t", "?">>,
      <<"h", "o", "w">>,
      <<"-", "n", ".">> }

\* what separates two words
Separators == { <<" ">>, <<" ", "\t">> }

RECURSIVE Join(_, _)
Join(ws, sep) ==
    IF ws = <<>> THEN <<>>
    ELSE IF Len(ws) = 1 THEN ws[1]
    ELSE ws[1] \o sep \o Join(Tail(ws), sep)

ParserInputs ==
    { Join(ws, sep) : ws \in UNION { [1..n -> Words] : n \in 1..MaxWords },
                      sep \in Separators }

InitParser ==
    /\ mode = "parser" /\ pc = "start"
    /\ cmd \in ParserInputs
    /\ parsed = NoParsed
    /\ verdict = NoVerdict /\ shared = NoShared /\ pipe = NoChild
    /\ impl = Ephemeral /\ fs = NoFs
    /\ answer = "not asked" /\ executed = <<>>
    /\ out = [err |-> FALSE, exit |-> 0]
    /\ allTurns = <<>> /\ appends = 0 /\ lines = 0
    /\ resp = NoResp
    /\ net = [posts |-> 0, probes |-> 0, calls |-> 0, last |-> NoCall]
    /\ IdleStream
    /\ IdleClassify

\* parser.parse(cmd)
ParseInput ==
    /\ mode = "parser" /\ ~parsed.parsed
    /\ parsed' = [parsed EXCEPT !.parsed = TRUE, !.result = parse(cmd)]
    /\ UNCHANGED << impl, fs, mode, pc, resp, cmd, answer, executed, net, out,
                    allTurns, appends, lines, stream, pos, ctx, sink, reply,
                    classified, verdict, shared, pipe >>

\* parser.extractIntent(cmd)
ExtractIntent ==
    /\ mode = "parser" /\ ~parsed.extracted
    /\ parsed' = [parsed EXCEPT !.extracted = TRUE, !.intent = extractIntent(cmd)]
    /\ UNCHANGED << impl, fs, mode, pc, resp, cmd, answer, executed, net, out,
                    allTurns, appends, lines, stream, pos, ctx, sink, reply,
                    classified, verdict, shared, pipe >>

NextParser == ParseInput \/ ExtractIntent

SpecParser == InitParser /\ [][NextParser]_vars

-----------------------------------------------------------------------------
(* Properties *)

IsSuffix(s, t) ==
    /\ Len(s) <= Len(t)
    /\ s = SubSeq(t, Len(t) - Len(s) + 1, Len(t))

SyncApis == {"smartQuery", "getCommandForTask", "explainCommand", "generateContent"}

\* this step is one synchronous client call
SyncCallStep == net'.calls = net.calls + 1 /\ net'.last.api \in SyncApis

\* this step appended to a named session
AppendStepTaken == appends' = appends + 1

C1_State ==
    (Named(impl) /\ appends > 0) =>
        /\ Len(impl.history) <= 2 * MAX_HISTORY_TURNS
        /\ IsSuffix(impl.history, allTurns)
        /\ (Len(allTurns) - Len(impl.history)) % 2 = 0

C1_FileStep ==
    (AppendStepTaken /\ fs'.file # fs.file) =>
        /\ fs'.file = FileOf(impl'.history)
        /\ Len(fs'.file.turns) <= 2 * MAX_HISTORY_TURNS

\* C1: on a named session, after every append the history holds at most
\* 2 x MAX_HISTORY_TURNS turns, it is a suffix of all turns loaded or appended
\* so far (the most recent ones, in order), an even number of the oldest turns
\* was dropped, and the file an append writes holds exactly that history.
C1_BoundedSuffix == [](C1_State) /\ [][C1_FileStep]_vars

C1_Witness ==
    /\ Named(impl) /\ appends >= 2
    /\ Len(impl.history) = 2 * MAX_HISTORY_TURNS
    /\ Len(allTurns) > Len(impl.history) + 2
    /\ fs.file = FileOf(impl.history)

\* a turn built by addCommandOutput for some executed command
IsCommandContext(text) == OccursAt(text, <<"I executed: ">>, 1)

\* the danger check on the commands the replies of this model lead to,
\* computed once
KnownCommands ==
    { TrimWs(c) : c \in {CmdLs, CmdSudoRm, CmdRmPadded} \cup ProcReplies }

DangerTable == [c \in KnownCommands |-> isDangerousCommand(c)]

ClassifiedDangerous(c) ==
    IF c \in KnownCommands THEN DangerTable[c] ELSE isDangerousCommand(c)

C2_State ==
    /\ \A k \in 1..Len(executed) :
          ClassifiedDangerous(executed[k].cmd) => executed[k].answer = "yes"
    /\ \A k \in 1..Len(allTurns) :
          IsCommandContext(allTurns[k].text) =>
              \E j \in 1..Len(executed) :
                  allTurns[k].text = CommandContext(executed[j].cmd, executed[j].output)

C2_DeclineStep ==
    (pc = "confirm" /\ answer' # "yes") =>
        /\ executed' = executed
        /\ impl' = impl /\ fs' = fs /\ allTurns' = allTurns
        /\ pc' = IF mode = "console" THEN "prompt" ELSE "done"

\* C2: every executed command that the danger check classifies as dangerous
\* was confirmed with exactly "yes" at the prompt shown after that
\* classification; every command-output turn of the session belongs to an
\* executed command; and a step that reads any other answer executes
\* nothing and leaves the session as it was, in --run and in console mode.
C2_DangerousNeedsYes == [](C2_State) /\ [][C2_DeclineStep]_vars

C2_Witness ==
    /\ mode = "console" /\ pc = "prompt"
    /\ Len(executed) = 1
    /\ isDangerousCommand(executed[1].cmd) /\ executed[1].answer = "yes"
    /\ answer \in {"y", "Yes", "no", ""}

C3_Step ==
    (SyncCallStep /\ net'.last.kind \in FailKinds) =>
        /\ net'.last.success = FALSE
        /\ resp'.success = FALSE
        /\ resp'.error # <<>>
        /\ impl' = impl
        /\ fs' = fs
        /\ net'.posts = net.posts + 1

\* C3: a synchronous request whose reply is a network error, a non-200 status
\* or a malformed or structurally invalid body returns success = false with a
\* non-empty error text, leaves history and session file unchanged, and has
\* issued exactly one Post.
C3_FailureLeavesSession == [][C3_Step]_vars

C3_Witness ==
    /\ net.last.api \in SyncApis /\ net.last.kind \in FailKinds
    /\ Named(impl) /\ impl.history # <<>> /\ fs.file = FileOf(impl.history)
    /\ resp.success = FALSE /\ resp.error # <<>>
    /\ net.posts = 2

C4_Step ==
    (SyncCallStep /\ net'.last.success /\ net'.last.use_history /\ Named(impl)) =>
        LET h == impl'.history
            n == Len(h)
        IN  /\ n >= 2
            /\ h[n - 1] = Turn("user", net'.last.prompt)
            /\ h[n] = Turn("model", net'.last.text)
            /\ IsSuffix(SubSeq(h, 1, n - 2), impl.history)
            /\ n = Min(Len(impl.history) + 2,
                       2 * MAX_HISTORY_TURNS - (Len(impl.history) % 2))
            /\ ~fs.fileRO => fs'.file = FileOf(h)

C5_PersistFailureNotEscalated ==
    /\ (net.last.api \in SyncApis /\ net.last.kind = "ok") => net.last.success
    /\ pc # "terminated"

\* what the reply's span from the first '{' to the last '}' holds
SpanOf(text) ==
    LET braces == { k \in 1..Len(text) : text[k] = "{" }
        closes == { k \in 1..Len(text) : text[k] = "}" }
        first  == CHOOSE k \in braces : \A j \in braces : k <= j
        last   == CHOOSE k \in closes : \A j \in closes : k >= j
    IN  IF braces # {} /\ closes # {} /\ first < last
        THEN [pair |-> TRUE, text |-> SubSeq(text, first, last)]
        ELSE [pair |-> FALSE, text |-> <<>>]

\* the span parses as a JSON object
SpanParses(text) ==
    SpanOf(text).pair /\ ParseJson(SpanOf(text).text).ok
                      /\ ParseJson(SpanOf(text).text).isObject

SpanType(text) == ParseJson(SpanOf(text).text).obj.type

SpanObj(text) == ParseJson(SpanOf(text).text).obj

ExplainRaw(r, text) ==
    r.type = "EXPLAIN" /\ r.explanation = text /\ r.success = TRUE

TransportFailKinds == {"neterr", "http_err", "curl_err"}

\* C7 as claimed: after a remote generate call that met a connection failure,
\* a non-success status or a timeout, the interaction has printed an error,
\* a synchronous call has returned an error result, and a process that ends
\* after it (every mode but the console loop) returns non-zero.
C7_TransportFailureSurfaced ==
    net.last.kind \in TransportFailKinds =>
        /\ out.err
        /\ net.last.api \in SyncApis => (~resp.success /\ resp.error # <<>>)
        /\ (pc = "done" /\ mode # "console") => out.exit # 0

\* the texts extracted from the complete lines of bytes: the lines that end
\* with "\n", in order, less one trailing "\r", that start with the marker
\* and carry a fragment with a text
LineFeeds(bytes) == { k \in 1..Len(bytes) : bytes[k] = "\n" }

LineBefore(bytes, e) ==
    LET earlier == { k \in LineFeeds(bytes) : k < e }
        b == IF earlier = {} THEN 1
             ELSE 1 + CHOOSE k \in earlier : \A j \in earlier : k >= j
        cr == e > b /\ bytes[e - 1] = "\r"
    IN  SubSeq(bytes, b, IF cr THEN e - 2 ELSE e - 1)

RECURSIVE ChunksUpTo(_, _)
ChunksUpTo(bytes, ends) ==
    IF ends = {} THEN <<>>
    ELSE LET e    == CHOOSE k \in ends : \A j \in ends : k >= j
             line == LineBefore(bytes, e)
             frag == SubSeq(line, Len(Marker) + 1, Len(line))
             rest == ChunksUpTo(bytes, ends \ {e})
         IN  IF Len(line) >= Len(Marker) /\ SubSeq(line, 1, Len(Marker)) = Marker
                /\ Len(frag) = 1 /\ frag[1] \in TextEvents
             THEN Append(rest, EventText(frag[1]))
             ELSE rest

ExpectedChunks(bytes) == ChunksUpTo(bytes, LineFeeds(bytes))

Delivered == SubSeq(stream, 1, pos)

\* C8: however the transport cut the delivered bytes into writes, the
\* accumulated text, the chunks handed to the sink and the bytes still
\* buffered are those of a single write of the same bytes.
C8_SplitIndependent ==
    LET one == curlWriteCallback(NewCtx(TRUE), <<>>, Delivered)
    IN  /\ ctx.accumulated = one.ctx.accumulated
        /\ sink = one.sink
        /\ ctx.buffer = one.ctx.buffer

\* a write ended between "\r" and "\n" of a marker-bearing line, after an
\* earlier line was decoded, and the whole stream has two texts to deliver
C8_Witness ==
    /\ mode = "smartQueryStreaming" /\ pc = "streaming"
    /\ Len(sink) = 1
    /\ ctx.buffer = Marker \o <<"Eb", "\r">>
    /\ pos = Len(stream) - 1

\* C9: at every point of a streaming call the accumulator is the
\* concatenation of the chunks handed to the sink, and those chunks are
\* the texts of the well-formed marker-bearing lines completed so far, once
\* each and in arrival order; lines without the marker and malformed
\* fragments contribute nothing and do not stop later lines.
C9_SinkInOrder ==
    /\ ctx.accumulated = Concat(sink)
    /\ sink = ExpectedChunks(Delivered)

\* a malformed fragment came first and the well-formed one after it arrived
C9_Witness ==
    /\ mode = "smartQueryStreaming"
    /\ stream = Marker \o <<"junk", "\r", "\n">> \o Marker \o <<"Ea", "\r", "\n">>
    /\ pos = Len(stream)
    /\ sink = << EventText("Ea") >>

\* C10 as claimed: for every reply text, smartQueryStreaming with that text
\* accumulated returns the type, command, explanation and success that
\* smartQuery returns for it as a synchronous reply.
C10_StreamingParsesLikeSync ==
    LET a == classified.sync
        b == classified.streaming
    IN  (a.kind = "ok" /\ b.kind = "ok") =>
          /\ a.result.type = b.result.type
          /\ a.result.command = b.result.command
          /\ a.result.explanation = b.result.explanation
          /\ a.result.success = b.result.success


\* the SmartResponse r obeys the tagged-union discipline of its header
OneCase(r) ==
    /\ r.type \in {"EXECUTE", "EXPLAIN", "ERROR"}
    /\ r.type = "EXECUTE" =>
          r.command # <<>> /\ r.explanation = <<>> /\ r.error = <<>>
    /\ r.type = "EXPLAIN" => r.command = <<>> /\ r.error = <<>>
    /\ r.type = "ERROR" =>
          r.error # <<>> /\ r.command = <<>> /\ r.explanation = <<>>
    /\ ~r.success => r.type = "ERROR"

\* C11 as claimed: every SmartResponse returned by smartQuery or
\* smartQueryStreaming has exactly one case populated (Execute with its
\* command, Explain with its text, Error with its message, no field of
\* another case set), and success is false only when the type is ERROR.
C11_OneCasePopulated ==
    /\ classified.sync.kind # "none" => OneCase(classified.sync.result)
    /\ classified.streaming.kind # "none" => OneCase(classified.streaming.result)

GenerateApis == SyncApis \cup {"smartQueryStreaming", "generateContentStreaming"}

\* this step is one call of a client function that talks to the remote
ClientCallStep == net'.calls = net.calls + 1

\* C12: on a session with an empty name the turn history is empty in every
\* reachable state, whatever was appended (addCommandOutput, successful
\* requests, streaming generation); no session file is created or written,
\* no append ends the process, and every generate request carries the new
\* user turn and nothing else.
C12_EphemeralNoOp ==
    ~Named(impl) =>
        /\ impl.history = <<>>
        /\ fs = NoFs
        /\ pc # "terminated"
        /\ net.last.api \in GenerateApis =>
              net.last.contents = << Turn("user", net.last.prompt) >>

\* addCommandOutput was called on an ephemeral session, then a request
\* succeeded
C12_Witness ==
    /\ mode = "client" /\ ~Named(impl)
    /\ appends = 1
    /\ net.calls = 1 /\ net.last.api = "generateContent" /\ net.last.success

C13_Step ==
    (/\ ClientCallStep
     /\ net'.last.api \in GenerateApis
     /\ net'.last.use_history
     /\ Named(impl) /\ impl.history # <<>>) =>
        net'.last.contents = impl.history \o << Turn("user", net'.last.prompt) >>

\* C13: every generate request made with history enabled (synchronous,
\* streaming intent query, streaming generation) on a named session whose
\* history is not empty carries the session's turns as they are stored at
\* the time of the call, in order, followed by the new user turn.
C13_RequestCarriesHistory == [][C13_Step]_vars

\* a streaming intent query sent the turns an earlier call had appended
C13_Witness ==
    /\ mode = "client" /\ Named(impl)
    /\ net.last.api = "smartQueryStreaming"
    /\ appends = 1 /\ net.calls = 1
    /\ Len(net.last.contents) >= 3
    /\ net.last.contents = impl.history \o << Turn("user", net.last.prompt) >>

C14_Step ==
    (ClientCallStep /\ net'.last.api \in {"validate", "countSessionTokens"}) =>
        /\ impl' = impl
        /\ fs' = fs
        /\ allTurns' = allTurns
        /\ pc' = pc
        /\ net'.last.api = "validate" =>
              /\ net'.last.contents = << Turn("user", net'.last.prompt) >>
              /\ net'.posts = net.posts + 1
        /\ net'.last.api = "countSessionTokens" =>
              /\ net'.posts = net.posts + (IF net'.last.contents = <<>> THEN 0 ELSE 1)
              /\ net'.last.contents \in {<<>>, impl.history}

\* C14: validate() and countSessionTokens() leave the in-memory history and
\* the session file as they were, whatever the remote replies; validate()
\* sends the probe turn alone even on a named session with history, and
\* countSessionTokens() sends the stored turns and nothing else.
C14_ProbesBypassHistory == [][C14_Step]_vars

\* validate() succeeded on a named session with stored turns
C14_Witness ==
    /\ mode = "client" /\ Named(impl) /\ impl.history # <<>>
    /\ net.last.api = "validate" /\ net.last.kind = "ok" /\ net.last.success
    /\ Len(net.last.contents) = 1
    /\ fs.file = FileOf(impl.history)

\* the files loadSession() cannot read an array from
UnreadableKinds == {"absent", "empty", "corrupt", "nonarray"}

\* C15: a named session whose file is missing, empty, no JSON, or JSON that
\* is no array starts with an empty history and the load raises nothing: the
\* process goes on to serve calls.
C15_BadFileLoadsEmpty ==
    (Named(impl) /\ appends = 0 /\ fs.file.kind \in UnreadableKinds) =>
        /\ impl.history = <<>>
        /\ allTurns = <<>>
        /\ pc # "terminated"

\* a session loaded from a file that is no JSON has served a first call
C15_Witness ==
    /\ mode = "client" /\ Named(impl) /\ appends = 0
    /\ fs.file.kind = "corrupt"
    /\ impl.history = <<>>
    /\ net.calls = 1 /\ net.last.api = "validate" /\ net.last.success

-----------------------------------------------------------------------------
\* C16: isDangerousCommand and Simulator::isDangerous each answer true for
\* "sudo rm -rf /tmp/x", "chmod 777 /etc/passwd" and
\* "dd if=/dev/zero of=/dev/sda", and false for "ls -la /home".
C16_SampleVerdicts ==
    (mode = "danger" /\ cmd \in Samples) =>
        /\ verdict.gate # "none" => (verdict.gate = "yes" <=> cmd # SampleLs)
        /\ verdict.sim # "none" => (verdict.sim = "yes" <=> cmd # SampleLs)

\* C17: a command with sudo anywhere in it and one of rm, dd, mkfs, chmod,
\* chown, mv, cp anywhere in it is dangerous for isDangerousCommand, the check
\* that gates execution.
C17_CompoundRule ==
    (mode = "danger" /\ cmd \in CompoundInputs /\ verdict.gate # "none") =>
        verdict.gate = "yes"

\* C18: isDangerousCommand answers true for every entry of DANGEROUS_COMMANDS
\* at the start of the command, after a pipe and after "sudo ", in every
\* letter case of the command.
C18_EveryEntryEveryCase ==
    (mode = "danger" /\ cmd \in EntryInputs /\ verdict.gate # "none") =>
        verdict.gate = "yes"

-----------------------------------------------------------------------------
\* the interactions a process has served so far: the one invocation, or the
\* console lines read
Interactions == IF mode = "console" THEN lines ELSE 1

\* C19 (as stated): for every CLI invocation or console input line, also on
\* a named session with existing turns, no more than one request is sent to
\* the remote endpoint and no more than one child process is run.
C19_OneRemoteCall ==
    mode \in Modes =>
        /\ net.posts <= Interactions
        /\ Len(executed) <= Interactions

\* C19 (amended): per CLI invocation or console line the process sends at
\* most one generate / streamGenerate request and runs at most one child
\* process, one step at a time; a CLI invocation on a named session with
\* stored turns sends one countTokens request more, before the generate
\* request, and console mode sends none.
C19_State ==
    mode \in Modes =>
        /\ net.posts - net.probes <= Interactions
        /\ Len(executed) <= Interactions
        /\ net.probes <= (IF mode = "console" THEN 0 ELSE 1)
        /\ net.probes = 1 => (Named(impl) /\ impl.history # <<>>)
        /\ pc = "tokens" => net.posts = 0

C19_Step ==
    mode \in Modes =>
        /\ net'.posts <= net.posts + 1
        /\ Len(executed') <= Len(executed) + 1
        /\ ~(net'.posts > net.posts /\ Len(executed') > Len(executed))
        /\ net'.probes > net.probes =>
              (net.posts = 0 /\ net'.last.contents = impl.history)
        /\ (pc = "tokens" /\ pc' # "tokens" /\ Named(impl) /\ impl.history # <<>>) =>
              net'.probes = 1

C19_OneGenerateAfterProbe == [](C19_State) /\ [][C19_Step]_vars

\* a --run invocation on a named session with turns that sent the count
\* request and the generate request, and ran the command
C19_Witness ==
    /\ mode = "run" /\ Named(impl)
    /\ net.probes = 1 /\ net.posts = 2
    /\ Len(executed) = 1

-----------------------------------------------------------------------------
\* both processes have appended and neither is inside saveSession()
BothAppended ==
    /\ mode = "shared"
    /\ \A p \in Procs : shared.procs[p].pc = "ready" /\ shared.procs[p].appended >= 1

\* C20: when two processes use one session name, the file after both have
\* appended is exactly the history of the last writer, and no interleaving
\* leaves a file that mixes the two histories.
C20_LastWriterWins ==
    BothAppended => shared.disk = Dump(shared.procs[shared.last].history)

-----------------------------------------------------------------------------
\* C21: countSessionTokens() returns 0 without a request when the session is
\* ephemeral or has no turns; otherwise it sends exactly one count request
\* with the history and returns the count, which is not negative, or -1 when
\* there is no response, a non-200 status, an unparsable body or no
\* totalTokens.
C21_Step ==
    (ClientCallStep /\ net'.last.api = "countSessionTokens") =>
        IF ~Named(impl) \/ impl.history = <<>>
        THEN /\ net'.last.tokens = 0
             /\ net'.posts = net.posts /\ net'.probes = net.probes
        ELSE /\ net'.posts = net.posts + 1 /\ net'.probes = net.probes + 1
             /\ net'.last.contents = impl.history
             /\ net'.last.kind = "count" =>
                   (net'.last.tokens \in TokenCounts /\ net'.last.tokens >= 0)
             /\ net'.last.kind # "count" => net'.last.tokens = -1

C21_TokenMonitor == [][C21_Step]_vars

\* a count request on a named session with turns that failed and returned -1
C21_Witness ==
    /\ mode = "client" /\ Named(impl) /\ impl.history # <<>>
    /\ net.last.api = "countSessionTokens" /\ net.last.kind = "nototal"
    /\ net.last.tokens = -1 /\ net.probes = 1

-----------------------------------------------------------------------------
\* C22: executeAndCapture returns the combined output unchanged when it has
\* at most 2000 bytes, and its first 2000 bytes followed by the truncation
\* marker when it is longer; the exit status is the child's exit code when
\* the child exited, and -1 when the status cannot be determined or the child
\* cannot be spawned, then with an explanatory text.
C22_CaptureResult ==
    (mode = "capture" /\ pc = "returned") =>
        LET r == executed[1]
        IN  IF pipe.spawn
            THEN /\ Len(pipe.out) <= OUTPUT_LIMIT => r.output = pipe.out
                 /\ Len(pipe.out) > OUTPUT_LIMIT =>
                       r.output = SubSeq(pipe.out, 1, OUTPUT_LIMIT) \o TruncationMarker
                 /\ pipe.how = "exit" => r.exit_code = pipe.code
                 /\ pipe.how # "exit" => r.exit_code = -1
                 /\ Concat(sink) = pipe.out
            ELSE r.exit_code = -1 /\ r.output = SpawnFailure

\* a child that printed more than the limit and exited with 127
C22_Witness ==
    /\ mode = "capture" /\ pc = "returned" /\ pipe.spawn
    /\ Len(pipe.out) > OUTPUT_LIMIT /\ pipe.how = "exit" /\ pipe.code = 127
    /\ Len(executed[1].output) = OUTPUT_LIMIT + Len(TruncationMarker)
    /\ executed[1].exit_code = 127

-----------------------------------------------------------------------------
\* C23: in every state in which the session file exists it is readable and
\* writable by its owner only and the session directory is accessible by its
\* owner only, also between the creation or rewriting of the file and the end
\* of the append.
C23_OwnerOnly ==
    (mode = "shared" /\ shared.fexists) =>
        /\ shared.fperm \subseteq owner_read_write
        /\ shared.dperm \subseteq owner_all

-----------------------------------------------------------------------------
\* the console read the line 'clear': a line is counted and no client call
\* is made for it
ClearStep == mode = "console" /\ pc = "prompt" /\ lines' = lines + 1 /\ net'.calls = net.calls

\* C24: in console mode, after the user types 'clear' the session's turn
\* history is empty, so the next request carries no prior turns.
C24_Step == ClearStep => impl'.history = <<>>

C24_ClearEmptiesSession == [][C24_Step]_vars

-----------------------------------------------------------------------------
\* the characters of a text that are neither white space nor quotes
IsLetter(c) == c \notin (WhiteSpace \cup Quotes)

Letters(s) == SelectSeq(s, IsLetter)

\* a word without quotes, or one quoted as a whole like '*.cpp'
PlainOrQuoted(w) ==
    \/ \A k \in 1..Len(w) : w[k] \notin Quotes
    \/ /\ Len(w) >= 3 /\ w[1] \in Quotes /\ w[Len(w)] = w[1]
       /\ \A k \in 2..(Len(w) - 1) : w[k] \notin Quotes

\* a command: an executable followed by plain and quoted words
IsCommandLine(words) ==
    /\ words # <<>> /\ words[1][1] \notin Quotes
    /\ \A k \in 1..Len(words) : PlainOrQuoted(words[k])

\* C25: parse of a non-question input accounts for every whitespace-separated
\* token: the first is the executable, each other one appears exactly once,
\* in input order, in flags if it begins with '-' and in args otherwise, a
\* quoted token counting as one argument; no token after a quoted argument is
\* lost.
C25_EveryTokenAccounted ==
    (mode = "parser" /\ parsed.parsed /\ ~parsed.result.is_question
        /\ IsCommandLine(SplitWs(cmd))) =>
        LET r     == parsed.result
            words == SplitWs(cmd)
            rest  == Tail(words)
        IN  /\ r.executable = words[1]
            /\ [k \in 1..Len(r.flags) |-> Letters(r.flags[k])]
                  = [k \in 1..Len(SelectSeq(rest, IsFlag)) |-> SelectSeq(rest, IsFlag)[k]]
            /\ [k \in 1..Len(r.args) |-> Letters(r.args[k])]
                  = [k \in 1..Len(SelectSeq(rest, IsArg)) |->
                        Letters(SelectSeq(rest, IsArg)[k])]

\* C26: extractIntent returns, for every question text, a string without a
\* question mark.
C26_IntentHasNoQuestionMark ==
    (mode = "parser" /\ parsed.extracted /\ isQuestion(cmd)) =>
        ~Contains(parsed.intent, <<"?">>)

-----------------------------------------------------------------------------
\* C27: in --run mode a command reaches the danger check and is executed only
\* when it was taken from the string member command of a JSON reply that
\* parsed; the raw reply text, an empty text or an indeterminate result never
\* does.
C27_OnlyParsedCommandRuns ==
    (mode = "run" /\ net.last.api = "getCommandForTask"
        /\ (pc \in {"confirm", "exec"} \/ executed # <<>>)) =>
        /\ SpanParses(net.last.text)
        /\ SpanObj(net.last.text).command.k = "string"
        /\ cmd = TrimWs(SpanObj(net.last.text).command.v)

-----------------------------------------------------------------------------
\* C28: a streaming generation call appends the user turn and the model turn
\* to a named session only when the stream completed; after a transport
\* failure (a curl error, or no decodable fragment) the history in memory and
\* in the file is unchanged and no model turn with empty or partial text is
\* recorded.
C28_Step ==
    (ClientCallStep /\ net'.last.api = "generateContentStreaming"
        /\ (net'.last.kind = "curl_err" \/ net'.last.text = <<>>)) =>
        /\ impl'.history = impl.history
        /\ fs' = fs

C28_FailedStreamLeavesSession == [][C28_Step]_vars

-----------------------------------------------------------------------------
\* C29: the 2 x MAX_HISTORY_TURNS bound holds for what is kept and for what
\* is sent: in every reachable state, the state right after loading a file of
\* more than 20 turns included, the history in memory has at most 20 turns
\* and the last generate request carried at most 20 prior turns and the new
\* user turn.
C29_BoundOnLoadAndSend ==
    /\ Len(impl.history) <= 2 * MAX_HISTORY_TURNS
    /\ (net.calls > 0 /\ net.last.api \in GenerateApis) =>
          Len(net.last.contents) <= 2 * MAX_HISTORY_TURNS + 1

-----------------------------------------------------------------------------
\* the texts of all lines of bytes, a last line without its "\n" included
AllLineChunks(bytes) == ExpectedChunks(bytes \o <<"\n">>)

\* C30: when the stream closes after the whole body was delivered, every
\* marker-bearing line has been decoded: the accumulated text is the
\* concatenation of the texts of all well-formed marker-bearing lines of the
\* stream, a last line that is not terminated by a newline included.
C30_AllLinesDecodedAtClose ==
    (mode = "smartQueryStreaming" /\ pc = "closed" /\ net.last.kind = "ok") =>
        ctx.accumulated = Concat(AllLineChunks(stream))
=============================================================================
